---- MODULE Spec2Model ----
(***************************************************************************)
(* The real-time messaging core of boardlyX-frontend: the shared socket    *)
(* of hooks/useSocket.ts and the chat page of                              *)
(* components/dashboard/ChatPage.tsx, as one state machine.                *)
(*                                                                         *)
(* Every action is one task of the browser's single UI thread: a React     *)
(* event handler or effect, a socket.io event callback, or the             *)
(* continuation of an awaited promise.  The effects that depend on         *)
(* activeConvId re-run in the commit of the state change that triggers     *)
(* them, so they are part of the action that changes activeConvId.         *)
(***************************************************************************)
EXTENDS Integers, Sequences, FiniteSets, TLC

(***************************************************************************)
(* Bounds of the model.                                                    *)
(***************************************************************************)
MaxConsumers == 2
MaxHandlers == 2
MaxListeners == 2
MaxMsgs == 2
MaxLoads == 2
MaxTextLen == 2
MaxPins == 2
MaxReads == 2

\* let globalSocket: Socket | null = null
NoSocket == 0

\* null, in a field that otherwise holds a string.
NULL == "null"

Consumers == 1..MaxConsumers

\* The chat page is the first component using the hook, and its callbacks are
\* the first callback of each event.
ChatPage == 1
Handlers == 1..MaxHandlers

\* The server-to-client events the hook lets a caller subscribe to.
EventNames ==
    {"new_message", "new_conversation", "user_typing", "user_stop_typing",
     "pinned_message_updated"}

VARIABLES
    \* ---- hooks/useSocket.ts ----
    token,            \* localStorage 'token' is present
    globalSocket,     \* the module-level socket: NoSocket or the id of a transport
    openSockets,      \* transports opened by io() and not yet disconnect()ed
    connectionCount,  \* the module-level consumer counter
    consumers,        \* per component using the hook: its effect's state
    socketConnected,  \* globalSocket.connected
    isConnected,      \* per consumer: the hook's isConnected state
    connListeners,    \* consumers whose connect/disconnect handlers are on
    listeners,        \* per event name: the callbacks registered, in order
    delivered,        \* the callbacks the last dispatched event invoked
    pendingSend,      \* the send_message emitted and not yet acknowledged
    out,              \* the packets the last task emitted on the socket
    \* ---- the server and the network ----
    serverLog,        \* the messages the server has stored, oldest first
    wire,             \* new_message events on their way to this client
    joined,           \* the conversation rooms this connection is in
    loads,            \* the getMessages calls in flight
    dmRequests,       \* the createDm calls in flight
    pendingUpload,    \* the sendMediaMessage call in flight
    \* ---- components/dashboard/ChatPage.tsx ----
    conversations,    \* the directory, in display order
    activeConvId,
    messages,         \* the timeline of the active conversation
    loadingMsgs,
    typingUsers,
    replyingTo,
    messageInput,
    sending,
    mediaPreview,
    uploading,
    uploadError,
    mentionQuery,
    typingTimer,      \* the conversation the pending hold timer will stop
    dmError,
    selectionStart,   \* textareaRef.current.selectionStart: the cursor
    fileRead,         \* the files the FileReaders of handleFileSelect read
    pinnedConvs,      \* the favorites: ids of the conversations kept on top
    \* ---- the pinned slot ----
    serverPinned,     \* per conversation: the message the server has pinned
    pinRequests,      \* the pinMessage calls in flight
    pinWire,          \* pinned_message_updated events on their way, in order
    \* ---- bookkeeping ----
    pinTrack,         \* the last run of pin actions on one message
    sendTrack,        \* the last text send: the timeline's length without
                      \* it, and how far the send has come
    lastAct           \* the task that ran last, with its inputs

sockVars ==
    <<token, globalSocket, openSockets, connectionCount, consumers,
      socketConnected, isConnected, connListeners, listeners, delivered>>

netVars == <<serverLog, wire, joined, loads, dmRequests, pendingUpload>>

pageVars ==
    <<conversations, activeConvId, messages, loadingMsgs, typingUsers,
      replyingTo, dmError>>

composerVars ==
    <<messageInput, sending, mediaPreview, uploading, uploadError,
      mentionQuery, typingTimer>>

pinVars == <<serverPinned, pinRequests, pinWire, pinTrack>>

\* The state of the page that only the user's own gestures write.
editVars == <<selectionStart, fileRead, pinnedConvs>>

chatVars == <<netVars, pageVars, composerVars, sendTrack, pinVars, editVars>>

vars == <<sockVars, pendingSend, out, chatVars, lastAct>>

(***************************************************************************)
(* Sequence helpers.                                                       *)
(***************************************************************************)
Range(s) == {s[i] : i \in DOMAIN s}

Count(s, x) == Cardinality({i \in DOMAIN s : s[i] = x})

\* The index of the first occurrence of x in s, 0 when there is none.
FirstIndex(s, x) ==
    IF \E i \in DOMAIN s : s[i] = x
    THEN CHOOSE i \in DOMAIN s : s[i] = x /\ \A j \in 1..(i - 1) : s[j] # x
    ELSE 0

RemoveAt(s, i) == [j \in 1..(Len(s) - 1) |-> IF j < i THEN s[j] ELSE s[j + 1]]

(***************************************************************************)
(* socket.io's Emitter: on() appends the callback to the event's list,     *)
(* off(event, fn) removes the first registration of fn and nothing else.   *)
(***************************************************************************)
EmitterOn(ls, ev, fn) == [ls EXCEPT ![ev] = Append(@, fn)]

\* off(event) without the callback: every registration of the event goes.
EmitterOff_All(ls, ev, fn) == [ls EXCEPT ![ev] = <<>>]

EmitterOff(ls, ev, fn) ==
    IF FirstIndex(ls[ev], fn) = 0
    THEN ls
    ELSE [ls EXCEPT ![ev] = RemoveAt(@, FirstIndex(ls[ev], fn))]

NoListeners == [ev \in EventNames |-> <<>>]

TotalListeners(ls) == Len(ls["new_message"]) + Len(ls["new_conversation"])
    + Len(ls["user_typing"]) + Len(ls["user_stop_typing"])
    + Len(ls["pinned_message_updated"])

(***************************************************************************)
(* The send_message request of the chat page, from emit to acknowledgment. *)
(* socket.io keeps a packet emitted while the transport is disconnected in *)
(* its send buffer and transmits it on the next connect; the callback of   *)
(* an emit is called when, and only when, the server's acknowledgment      *)
(* arrives on the same connection.                                         *)
(***************************************************************************)
NoSend == [stage |-> "none"]

\* The transport connects: the send buffer is transmitted.
Flushed(p) == IF p.stage = "buffered" THEN [p EXCEPT !.stage = "sent"] ELSE p

\* The transport disconnects: a request or an acknowledgment on its way is gone.
Dropped(p) ==
    IF p.stage \in {"sent", "acked"} THEN [p EXCEPT !.stage = "lost"] ELSE p

\* The socket object is disconnected and forgotten, its send buffer with it.
Discarded(p) == IF p.stage = "none" THEN p ELSE [p EXCEPT !.stage = "lost"]

(***************************************************************************)
(* useSocket(): the mount effect and its cleanup.                          *)
(***************************************************************************)
\* io(API_BASE, ...): a fresh transport, not yet connected.
NewSocketId ==
    CHOOSE i \in 1..(Cardinality(openSockets) + 1) : i \notin openSockets

\* A mount that opens a transport whether or not one exists.
OpensTransport_Always == TRUE

\* if (!globalSocket) globalSocket = io(...)
OpensTransport == globalSocket = NoSocket

\* The effect of a mounting component c.  useState(globalSocket?.connected
\* || false) has run in the render before it.
Mount(c) ==
    /\ consumers[c] = "unmounted"
    /\ IF ~token
       THEN /\ consumers' = [consumers EXCEPT ![c] = "noToken"]
            /\ isConnected' =
                   [isConnected EXCEPT
                        ![c] = globalSocket # NoSocket /\ socketConnected]
            /\ UNCHANGED <<globalSocket, openSockets, connectionCount,
                           socketConnected, connListeners, listeners>>
       ELSE /\ consumers' = [consumers EXCEPT ![c] = "registered"]
            /\ connectionCount' = connectionCount + 1
            /\ IF OpensTransport
               THEN /\ globalSocket' = NewSocketId
                    /\ openSockets' = openSockets \cup {NewSocketId}
                    /\ socketConnected' = FALSE
                    /\ listeners' = NoListeners
               ELSE UNCHANGED <<globalSocket, openSockets, socketConnected,
                                listeners>>
            /\ connListeners' = connListeners \cup {c}
            /\ isConnected' = [isConnected EXCEPT ![c] = socketConnected']
    /\ delivered' = <<>>
    /\ out' = <<>>
    /\ lastAct' = [name |-> "Mount", c |-> c]
    /\ UNCHANGED <<token, pendingSend, chatVars>>

\* A cleanup that disconnects whenever a socket exists, whatever the count.
TearsDown_Eager(count) == globalSocket # NoSocket

\* connectionCount === 0 && globalSocket: disconnect and forget the socket.
TearsDown(count) == count = 0 /\ globalSocket # NoSocket

\* The cleanup of the effect, run when component c unmounts.  A component
\* that mounted without a token returned no cleanup.
Unmount(c) ==
    /\ consumers[c] # "unmounted"
    /\ consumers' = [consumers EXCEPT ![c] = "unmounted"]
    /\ isConnected' = [isConnected EXCEPT ![c] = FALSE]
    /\ IF consumers[c] = "noToken"
       THEN UNCHANGED <<globalSocket, openSockets, connectionCount,
                        socketConnected, connListeners, listeners>>
       ELSE /\ connectionCount' = connectionCount - 1
            /\ connListeners' =
                   IF globalSocket # NoSocket THEN connListeners \ {c}
                   ELSE connListeners
            /\ IF TearsDown(connectionCount')
               THEN /\ openSockets' = openSockets \ {globalSocket}
                    /\ globalSocket' = NoSocket
                    /\ socketConnected' = FALSE
                    /\ listeners' = NoListeners
               ELSE UNCHANGED <<globalSocket, openSockets, socketConnected,
                                listeners>>
    /\ delivered' = <<>>
    /\ out' = <<>>
    /\ pendingSend' =
           IF globalSocket' # globalSocket THEN Discarded(pendingSend)
           ELSE pendingSend
    /\ wire' = IF globalSocket' # globalSocket THEN {} ELSE wire
    /\ lastAct' = [name |-> "Unmount", c |-> c]
    /\ UNCHANGED <<pinVars, editVars>>
    /\ UNCHANGED <<token, serverLog, joined, loads, dmRequests,
                   pendingUpload, pageVars, composerVars, sendTrack>>

\* The store's login and logout write and remove localStorage 'token'.
Login ==
    /\ ~token
    /\ token' = TRUE
    /\ delivered' = <<>>
    /\ out' = <<>>
    /\ lastAct' = [name |-> "Login"]
    /\ UNCHANGED <<globalSocket, openSockets, connectionCount, consumers,
                   socketConnected, isConnected, connListeners, listeners,
                   pendingSend, chatVars>>

Logout ==
    /\ token
    /\ token' = FALSE
    /\ delivered' = <<>>
    /\ out' = <<>>
    /\ lastAct' = [name |-> "Logout"]
    /\ UNCHANGED <<globalSocket, openSockets, connectionCount, consumers,
                   socketConnected, isConnected, connListeners, listeners,
                   pendingSend, chatVars>>

\* The transport's 'connect' event: handleConnect of every registered consumer.
SocketConnect ==
    /\ globalSocket # NoSocket
    /\ ~socketConnected
    /\ socketConnected' = TRUE
    /\ isConnected' =
           [c \in Consumers |->
               IF c \in connListeners THEN TRUE ELSE isConnected[c]]
    /\ delivered' = <<>>
    /\ out' = <<>>
    /\ pendingSend' = Flushed(pendingSend)
    /\ lastAct' = [name |-> "SocketConnect"]
    /\ UNCHANGED <<token, globalSocket, openSockets, connectionCount,
                   consumers, connListeners, listeners, chatVars>>

\* The transport's 'disconnect' event: handleDisconnect of every registered
\* consumer.  The transport stays open and reconnects by itself.
SocketDisconnect ==
    /\ globalSocket # NoSocket
    /\ socketConnected
    /\ socketConnected' = FALSE
    /\ isConnected' =
           [c \in Consumers |->
               IF c \in connListeners THEN FALSE ELSE isConnected[c]]
    /\ delivered' = <<>>
    /\ out' = <<>>
    /\ pendingSend' = Dropped(pendingSend)
    /\ wire' = {}
    /\ lastAct' = [name |-> "SocketDisconnect"]
    /\ UNCHANGED <<pinVars, editVars>>
    /\ UNCHANGED <<token, globalSocket, openSockets, connectionCount,
                   consumers, connListeners, listeners, serverLog,
                   joined, loads, dmRequests, pendingUpload, pageVars,
                   composerVars, sendTrack>>

(***************************************************************************)
(* onNewMessage, onNewConversation, onTyping, onStopTyping and             *)
(* onPinnedMessageUpdated: the five have the same body, with their own     *)
(* event name.                                                             *)
(***************************************************************************)
\* if (!globalSocket) return () => {}; globalSocket.on(ev, callback)
Subscribed(ls, ev, fn) ==
    IF globalSocket = NoSocket THEN ls ELSE EmitterOn(ls, ev, fn)

\* () => { globalSocket?.off(ev, callback) }
Unsubscribed(ls, ev, fn) ==
    IF globalSocket = NoSocket THEN ls ELSE EmitterOff(ls, ev, fn)

Subscribe(ev, fn) ==
    /\ TotalListeners(listeners) < MaxListeners
    /\ listeners' = Subscribed(listeners, ev, fn)
    /\ delivered' = <<>>
    /\ out' = <<>>
    /\ lastAct' = [name |-> "Subscribe", ev |-> ev, fn |-> fn]
    /\ UNCHANGED <<token, globalSocket, openSockets, connectionCount,
                   consumers, socketConnected, isConnected, connListeners,
                   pendingSend, chatVars>>

\* A call of the closure a subscription returned.  The closure of a callback
\* that is not registered (any more) finds nothing to remove.
Unsubscribe(ev, fn) ==
    /\ listeners' = Unsubscribed(listeners, ev, fn)
    /\ delivered' = <<>>
    /\ out' = <<>>
    /\ lastAct' = [name |-> "Unsubscribe", ev |-> ev, fn |-> fn,
                   removed |-> listeners' # listeners]
    /\ UNCHANGED <<token, globalSocket, openSockets, connectionCount,
                   consumers, socketConnected, isConnected, connListeners,
                   pendingSend, chatVars>>

\* The socket receives event ev and calls every callback registered for it.
Dispatch(ev) ==
    /\ globalSocket # NoSocket
    /\ socketConnected
    /\ delivered' = listeners[ev]
    /\ out' = <<>>
    /\ lastAct' = [name |-> "Dispatch", ev |-> ev]
    /\ UNCHANGED <<token, globalSocket, openSockets, connectionCount,
                   consumers, socketConnected, isConnected, connListeners,
                   listeners, pendingSend, chatVars>>

(***************************************************************************)
(* The data of the chat: texts, users, conversations and messages.         *)
(***************************************************************************)
\* A text is a sequence of characters.
Chars == {"a", " ", "@"}

Texts == UNION {[1..n -> Chars] : n \in 0..MaxTextLen}

IsSpace(ch) == ch = " "

RECURSIVE TrimStart(_)
TrimStart(t) ==
    IF t # <<>> /\ IsSpace(Head(t)) THEN TrimStart(Tail(t)) ELSE t

RECURSIVE TrimEnd(_)
TrimEnd(t) ==
    IF t # <<>> /\ IsSpace(t[Len(t)])
    THEN TrimEnd(SubSeq(t, 1, Len(t) - 1))
    ELSE t

\* String.prototype.trim
Trim(t) == TrimEnd(TrimStart(t))

\* textBeforeCursor.split(/[\s\n]/), last element: the longest suffix of t
\* that holds no white space.
RECURSIVE LastWord(_)
LastWord(t) ==
    IF t = <<>> \/ IsSpace(t[Len(t)])
    THEN <<>>
    ELSE Append(LastWord(SubSeq(t, 1, Len(t) - 1)), t[Len(t)])

LowerChar(ch) == IF ch = "A" THEN "a" ELSE ch

\* String.prototype.toLowerCase
Lower(t) == [i \in DOMAIN t |-> LowerChar(t[i])]

\* The authenticated user and the other members.
Me == "me"

RemoteUsers == {"u1", "u2"}

\* Conversation A is a group; B and C are the direct conversations with u1
\* and u2.  The directory starts with A and B; C is not yet in it.
ConvIds == {"A", "B", "C"}

DmWith(u) == IF u = "u1" THEN "B" ELSE "C"

ConvType(c) == IF c = "A" THEN "group" ELSE "dm"

\* A null message, text, media type and time stamp.
NoMessage == [id |-> 0]

NoText == <<NULL>>

NoMedia == <<>>

NoTime == 0

\* A MIME type is its type and its subtype.
StartsWithImage(mime) == mime # NoMedia /\ mime[1] = "image"

\* The Conversation the server lists or returns for conversation c.  The
\* conversations were created at time 0; the messages' times start at 1.
Conv(c) ==
    [id |-> c, type |-> ConvType(c), last_message |-> NoText,
     last_message_at |-> NoTime, created_at |-> 0,
     pinned_message |-> NoMessage]

ConvIndex(cs, c) == FirstIndex([i \in DOMAIN cs |-> cs[i].id], c)

HasConv(cs, c) == \E i \in DOMAIN cs : cs[i].id = c

HasMessage(ms, id) == \E i \in DOMAIN ms : ms[i].id = id

(***************************************************************************)
(* The directory's order after a new message: Array.prototype.sort with    *)
(* the comparator of the new_message handler, newest activity first.  The  *)
(* sort is stable: entries that compare equal keep their order.            *)
(***************************************************************************)
\* a.last_message_at || a.created_at
ActivityTime(c) ==
    IF c.last_message_at # NoTime THEN c.last_message_at ELSE c.created_at

RECURSIVE InsertByRecency(_, _)
InsertByRecency(sorted, c) ==
    IF sorted = <<>>
    THEN <<c>>
    ELSE IF ActivityTime(Head(sorted)) >= ActivityTime(c)
         THEN <<Head(sorted)>> \o InsertByRecency(Tail(sorted), c)
         ELSE <<c>> \o sorted

RECURSIVE SortByRecency(_)
SortByRecency(cs) ==
    IF cs = <<>>
    THEN <<>>
    ELSE InsertByRecency(SortByRecency(SubSeq(cs, 1, Len(cs) - 1)),
                         cs[Len(cs)])

\* The last-message summary of a message: its text, or the paperclip sign, a
\* space and the label of its media.
Summary(m) ==
    IF m.media_type # NoMedia
    THEN IF StartsWithImage(m.media_type)
         THEN <<"clip", " ", "Photo">>
         ELSE <<"clip", " ", "Video">>
    ELSE m.content

\* A directory update for the messages of the active conversation only.
WithNewMessage_ActiveOnly(cs, m) ==
    IF m.conversation_id # activeConvId THEN cs
    ELSE SortByRecency(
             [i \in DOMAIN cs |->
                 IF cs[i].id = m.conversation_id
                 THEN [cs[i] EXCEPT !.last_message = Summary(m),
                                    !.last_message_at = m.created_at]
                 ELSE cs[i]])

\* The directory update of the new_message handler.
WithNewMessage(cs, m) ==
    SortByRecency(
        [i \in DOMAIN cs |->
            IF cs[i].id = m.conversation_id
            THEN [cs[i] EXCEPT !.last_message = Summary(m),
                               !.last_message_at = m.created_at]
            ELSE cs[i]])

\* An insertion that does not look for the id in the directory.
WithConversation_Always(cs, conv) == <<conv>> \o cs

\* The insertion of the new_conversation handler and of handleCreateDm.
WithConversation(cs, conv) ==
    IF HasConv(cs, conv.id) THEN cs ELSE <<conv>> \o cs

(***************************************************************************)
(* The timeline.                                                           *)
(***************************************************************************)
\* An update that appends without looking at the ids in the timeline.
AppendIfNew_Blind(ms, m) == Append(ms, m)

\* The timeline update of the new_message handler: a message whose id is in
\* the timeline is dropped, any other is appended at the end.
AppendIfNew(ms, m) == IF HasMessage(ms, m.id) THEN ms ELSE Append(ms, m)

\* The server's answer to getMessages(conv): the stored messages of the
\* conversation, oldest first, at most PageLimit of them, the newest ones.
PageLimit == 50

Newest(ms, n) == IF Len(ms) <= n THEN ms ELSE SubSeq(ms, Len(ms) - n + 1, Len(ms))

History(conv) ==
    Newest(SelectSeq(serverLog, LAMBDA m : m.conversation_id = conv),
           PageLimit)

\* emit on the module's socket: globalSocket?.emit(...)
Emit(packets) == IF globalSocket = NoSocket THEN <<>> ELSE packets

Packet(ev, conv) == [ev |-> ev, conversationId |-> conv]

\* The chat page's callback for event ev is registered and the transport can
\* deliver an event to it.
Receives(ev) ==
    /\ globalSocket # NoSocket
    /\ socketConnected
    /\ Count(listeners[ev], ChatPage) > 0

(***************************************************************************)
(* The server, as this client sees it.                                     *)
(***************************************************************************)
Members(c) ==
    IF c = "A" THEN {Me} \cup RemoteUsers
    ELSE {Me} \cup {u \in RemoteUsers : DmWith(u) = c}

\* The message the server stores next: it assigns the id and the time stamp.
NewMessage(c, u, content, media, replyTo) ==
    [id |-> Len(serverLog) + 1, conversation_id |-> c, sender_id |-> u,
     content |-> content, media_type |-> media, reply_to_id |-> replyTo,
     created_at |-> Len(serverLog) + 1]

\* The rooms' broadcast reaches this client when its connection is in the room.
Broadcast(m) ==
    IF globalSocket # NoSocket /\ socketConnected
       /\ m.conversation_id \in joined
    THEN wire \cup {m}
    ELSE wire

sockFrame ==
    <<token, globalSocket, openSockets, connectionCount, consumers,
      socketConnected, isConnected, connListeners>>

\* Another member posts a message to conversation c.
ServerPost(c, u, content, media) ==
    /\ Len(serverLog) < MaxMsgs
    /\ u \in Members(c) \ {Me}
    /\ serverLog' = Append(serverLog, NewMessage(c, u, content, media, 0))
    /\ wire' = Broadcast(NewMessage(c, u, content, media, 0))
    /\ delivered' = <<>>
    /\ out' = <<>>
    /\ lastAct' = [name |-> "ServerPost"]
    /\ UNCHANGED <<pinVars, editVars>>
    /\ UNCHANGED <<sockFrame, listeners, pendingSend, joined, loads,
                   dmRequests, pendingUpload, pageVars, composerVars,
                   sendTrack>>

(***************************************************************************)
(* The effects of ChatPage that depend on activeConvId.                    *)
(***************************************************************************)
\* The cleanup and the re-run of the new_message and typing effects: each
\* unsubscribes its callback and subscribes the new one.
Resubscribed(ls) ==
    LET again(l, ev) == Subscribed(Unsubscribed(l, ev, ChatPage), ev, ChatPage)
    IN  again(again(again(ls, "new_message"), "user_typing"),
              "user_stop_typing")

LoadRequest(c) == [conv |-> c, stage |-> "requested", snapshot |-> <<>>]

\* The state change that makes c the active conversation, with the effects
\* that run in its commit: loadMessages(c) up to its await, and the
\* subscriptions.  Nothing runs when c is the active conversation already.
Activate(c) ==
    /\ activeConvId' = c
    /\ IF c # activeConvId
       THEN /\ Len(loads) < MaxLoads
            /\ loads' = Append(loads, LoadRequest(c))
            /\ loadingMsgs' = TRUE
            /\ listeners' = Resubscribed(listeners)
       ELSE UNCHANGED <<loads, loadingMsgs, listeners>>

\* handleSelectConversation(convId): a click on an entry of the sidebar.
HandleSelectConversation(c) ==
    /\ HasConv(conversations, c)
    /\ Activate(c)
    /\ typingUsers' = <<>>
    /\ replyingTo' = NoMessage
    /\ delivered' = <<>>
    /\ out' = <<>>
    /\ lastAct' = [name |-> "HandleSelectConversation"]
    /\ UNCHANGED <<pinVars, editVars>>
    /\ UNCHANGED <<sockFrame, pendingSend, serverLog, wire, joined,
                   dmRequests, pendingUpload, conversations, messages,
                   dmError, composerVars, sendTrack>>

(***************************************************************************)
(* loadMessages(convId).                                                   *)
(***************************************************************************)
\* The server answers request i: with the conversation's messages, or with
\* an error status.
ServerAnswerLoad(i, ok) ==
    /\ i \in DOMAIN loads
    /\ loads[i].stage = "requested"
    /\ loads' =
           [loads EXCEPT
               ![i] = IF ok
                      THEN [@ EXCEPT !.stage = "answered",
                                     !.snapshot = History(loads[i].conv)]
                      ELSE [@ EXCEPT !.stage = "failed"]]
    /\ delivered' = <<>>
    /\ out' = <<>>
    /\ lastAct' = [name |-> "ServerAnswerLoad"]
    /\ UNCHANGED <<pinVars, editVars>>
    /\ UNCHANGED <<sockFrame, listeners, pendingSend, serverLog, wire, joined,
                   dmRequests, pendingUpload, pageVars, composerVars,
                   sendTrack>>

\* The continuation of loadMessages after its await: the try block, then the
\* finally block.
LoadResolve(i) ==
    /\ i \in DOMAIN loads
    /\ loads[i].stage = "answered"
    /\ messages' = loads[i].snapshot
    /\ loadingMsgs' = FALSE
    /\ loads' = RemoveAt(loads, i)
    /\ delivered' = <<>>
    /\ out' = <<>>
    /\ lastAct' = [name |-> "LoadResolve"]
    /\ UNCHANGED <<pinVars, editVars>>
    /\ UNCHANGED <<sockFrame, listeners, pendingSend, serverLog, wire, joined,
                   dmRequests, pendingUpload, conversations, activeConvId,
                   typingUsers, replyingTo, dmError, composerVars, sendTrack>>

\* getMessages threw: the catch block, then the finally block.
LoadReject(i) ==
    /\ i \in DOMAIN loads
    /\ loads[i].stage = "failed"
    /\ loadingMsgs' = FALSE
    /\ loads' = RemoveAt(loads, i)
    /\ delivered' = <<>>
    /\ out' = <<>>
    /\ lastAct' = [name |-> "LoadReject"]
    /\ UNCHANGED <<pinVars, editVars>>
    /\ UNCHANGED <<sockFrame, listeners, pendingSend, serverLog, wire, joined,
                   dmRequests, pendingUpload, conversations, activeConvId,
                   messages, typingUsers, replyingTo, dmError, composerVars,
                   sendTrack>>

(***************************************************************************)
(* The new_message handler.                                                *)
(***************************************************************************)
\* The record of the last text send after the handler has run for m: the
\* broadcast of the sent message has been handled; any other message the
\* handler appends makes the timeline without the sent message one longer.
EchoTracked(m) ==
    IF ~sendTrack.sent \/ m.conversation_id # activeConvId THEN sendTrack
    ELSE IF m.id = sendTrack.id THEN [sendTrack EXCEPT !.echoed = TRUE]
    ELSE IF HasMessage(messages, m.id) THEN sendTrack
    ELSE [sendTrack EXCEPT !.base = @ + 1]

\* The socket delivers new_message{m}; the transport may deliver it again.
OnNewMessage(m, again) ==
    /\ Receives("new_message")
    /\ m \in wire
    /\ wire' = IF again THEN wire ELSE wire \ {m}
    /\ messages' =
           IF m.conversation_id = activeConvId
           THEN AppendIfNew(messages, m)
           ELSE messages
    /\ conversations' = WithNewMessage(conversations, m)
    /\ sendTrack' = EchoTracked(m)
    /\ delivered' = listeners["new_message"]
    /\ out' = <<>>
    /\ lastAct' = [name |-> "OnNewMessage",
                    known |-> /\ m.conversation_id = activeConvId
                              /\ HasMessage(messages, m.id)]
    /\ UNCHANGED <<pinVars, editVars>>
    /\ UNCHANGED <<sockFrame, listeners, pendingSend, serverLog, joined,
                   loads, dmRequests, pendingUpload, activeConvId,
                   loadingMsgs, typingUsers, replyingTo, dmError,
                   composerVars>>

(***************************************************************************)
(* The typing indicators of the other members.                             *)
(***************************************************************************)
\* A JavaScript Set is its elements in insertion order, each once.
\* An add that appends the element whether or not it is in the set.
SetAdd_Push(set, x) == Append(set, x)

\* Set.prototype.add
SetAdd(set, x) == IF x \in Range(set) THEN set ELSE Append(set, x)

\* Set.prototype.delete
SetDelete(set, x) == SelectSeq(set, LAMBDA y : y # x)

\* A handler that takes the events of every conversation.
TypingAdded_AnyConversation(tu, c, u) == IF u # Me THEN SetAdd(tu, u) ELSE tu

\* The user_typing handler.
TypingAdded(tu, c, u) ==
    IF c = activeConvId /\ u # Me THEN SetAdd(tu, u) ELSE tu

\* The user_stop_typing handler.
TypingRemoved(tu, c, u) == IF c = activeConvId THEN SetDelete(tu, u) ELSE tu

OnTyping(c, u) ==
    /\ Receives("user_typing")
    /\ typingUsers' = TypingAdded(typingUsers, c, u)
    /\ delivered' = listeners["user_typing"]
    /\ out' = <<>>
    /\ lastAct' = [name |-> "OnTyping", active |-> c = activeConvId,
                    user |-> u, known |-> u \in Range(typingUsers)]
    /\ UNCHANGED <<pinVars, editVars>>
    /\ UNCHANGED <<sockFrame, listeners, pendingSend, netVars, conversations,
                   activeConvId, messages, loadingMsgs, replyingTo, dmError,
                   composerVars, sendTrack>>

OnStopTyping(c, u) ==
    /\ Receives("user_stop_typing")
    /\ typingUsers' = TypingRemoved(typingUsers, c, u)
    /\ delivered' = listeners["user_stop_typing"]
    /\ out' = <<>>
    /\ lastAct' = [name |-> "OnStopTyping", active |-> c = activeConvId,
                    user |-> u, known |-> u \in Range(typingUsers)]
    /\ UNCHANGED <<pinVars, editVars>>
    /\ UNCHANGED <<sockFrame, listeners, pendingSend, netVars, conversations,
                   activeConvId, messages, loadingMsgs, replyingTo, dmError,
                   composerVars, sendTrack>>

(***************************************************************************)
(* handleCreateDm(user).                                                   *)
(***************************************************************************)
\* The handler up to its await: setDmError(null) and the createDm request.
HandleCreateDm(u) ==
    /\ dmRequests[u] = "none"
    /\ dmRequests' = [dmRequests EXCEPT ![u] = "requested"]
    /\ dmError' = NULL
    /\ delivered' = <<>>
    /\ out' = <<>>
    /\ lastAct' = [name |-> "HandleCreateDm"]
    /\ UNCHANGED <<pinVars, editVars>>
    /\ UNCHANGED <<sockFrame, listeners, pendingSend, serverLog, wire, joined,
                   loads, pendingUpload, conversations, activeConvId,
                   messages, loadingMsgs, typingUsers, replyingTo,
                   composerVars, sendTrack>>

\* The server returns the direct conversation with u, or an error status.
ServerAnswerDm(u, ok) ==
    /\ dmRequests[u] = "requested"
    /\ dmRequests' = [dmRequests EXCEPT ![u] = IF ok THEN "ok" ELSE "failed"]
    /\ delivered' = <<>>
    /\ out' = <<>>
    /\ lastAct' = [name |-> "ServerAnswerDm"]
    /\ UNCHANGED <<pinVars, editVars>>
    /\ UNCHANGED <<sockFrame, listeners, pendingSend, serverLog, wire, joined,
                   loads, pendingUpload, pageVars, composerVars, sendTrack>>

\* The continuation after createDm resolved with the conversation: join its
\* room, insert it in the directory, make it the active conversation.  The
\* typing set and the reply target are not written.
CreateDmResolve(u) ==
    /\ dmRequests[u] = "ok"
    /\ dmRequests' = [dmRequests EXCEPT ![u] = "none"]
    /\ out' = Emit(<<Packet("join_conversation", DmWith(u))>>)
    /\ joined' =
           IF globalSocket # NoSocket THEN joined \cup {DmWith(u)} ELSE joined
    /\ conversations' = WithConversation(conversations, Conv(DmWith(u)))
    /\ Activate(DmWith(u))
    /\ delivered' = <<>>
    /\ lastAct' = [name |-> "CreateDmResolve"]
    /\ UNCHANGED <<pinVars, editVars>>
    /\ UNCHANGED <<sockFrame, pendingSend, serverLog, wire, pendingUpload,
                   messages, typingUsers, replyingTo, dmError, composerVars,
                   sendTrack>>

\* createDm threw: the catch block.
CreateDmReject(u) ==
    /\ dmRequests[u] = "failed"
    /\ dmRequests' = [dmRequests EXCEPT ![u] = "none"]
    /\ dmError' = "Failed to create DM"
    /\ delivered' = <<>>
    /\ out' = <<>>
    /\ lastAct' = [name |-> "CreateDmReject"]
    /\ UNCHANGED <<pinVars, editVars>>
    /\ UNCHANGED <<sockFrame, listeners, pendingSend, serverLog, wire, joined,
                   loads, pendingUpload, conversations, activeConvId,
                   messages, loadingMsgs, typingUsers, replyingTo,
                   composerVars, sendTrack>>

\* The socket delivers new_conversation{conversation}: another user opened
\* the direct conversation c.  The handler inserts it in the directory and
\* joins its room.
OnNewConversation(c) ==
    /\ Receives("new_conversation")
    /\ conversations' = WithConversation(conversations, Conv(c))
    /\ out' = Emit(<<Packet("join_conversation", c)>>)
    /\ joined' = joined \cup {c}
    /\ delivered' = listeners["new_conversation"]
    /\ lastAct' = [name |-> "OnNewConversation", conv |-> c]
    /\ UNCHANGED <<pinVars, editVars>>
    /\ UNCHANGED <<sockFrame, listeners, pendingSend, serverLog, wire, loads,
                   dmRequests, pendingUpload, activeConvId, messages,
                   loadingMsgs, typingUsers, replyingTo, dmError,
                   composerVars, sendTrack>>

(***************************************************************************)
(* The composer.  It is rendered while the active conversation is in the   *)
(* directory.                                                              *)
(***************************************************************************)
ComposerShown == HasConv(conversations, activeConvId)

NoMention == [active |-> FALSE]

NoPreview == [type |-> NoMedia]

NoUpload == [stage |-> "none"]

NoPinTrack == [msg |-> 0, count |-> 0, both |-> FALSE, failed |-> FALSE]

NoTrack == [sent |-> FALSE, id |-> 0, base |-> 0, acked |-> FALSE,
            echoed |-> FALSE, failed |-> FALSE]

\* The mention part of handleInputChange: the word that ends at the cursor.
MentionAt(val, cursor) ==
    LET currentWord == LastWord(SubSeq(val, 1, cursor))
    IN  IF currentWord # <<>> /\ Head(currentWord) = "@"
        THEN [active |-> TRUE, text |-> Lower(Tail(currentWord)),
              index |-> cursor - Len(currentWord)]
        ELSE NoMention

\* handleInputChange(val), with the textarea's cursor after the change.
HandleInputChange(val, cursor) ==
    /\ ComposerShown
    /\ cursor \in 0..Len(val)
    /\ messageInput' = val
    /\ selectionStart' = cursor
    /\ mentionQuery' = MentionAt(val, selectionStart')
    /\ IF Trim(val) # <<>>
       THEN /\ out' = Emit(<<Packet("typing_start", activeConvId)>>)
            /\ typingTimer' = activeConvId
       ELSE /\ out' = Emit(<<Packet("typing_stop", activeConvId)>>)
            /\ UNCHANGED typingTimer
    /\ delivered' = <<>>
    /\ lastAct' = [name |-> "HandleInputChange"]
    /\ UNCHANGED <<pinVars, fileRead, pinnedConvs>>
    /\ UNCHANGED <<sockFrame, listeners, pendingSend, netVars, pageVars,
                   sending, mediaPreview, uploading, uploadError, sendTrack>>

\* The user moves the caret of the textarea with the arrow keys or the
\* mouse: the textarea has no handler for it.
MoveCursor(p) ==
    /\ ComposerShown
    /\ p \in 0..Len(messageInput)
    /\ p # selectionStart
    /\ selectionStart' = p
    /\ delivered' = <<>>
    /\ out' = <<>>
    /\ lastAct' = [name |-> "MoveCursor"]
    /\ UNCHANGED <<pinVars, fileRead, pinnedConvs>>
    /\ UNCHANGED <<sockFrame, listeners, pendingSend, netVars, pageVars,
                   composerVars, sendTrack>>

\* The username and the display name of a member.
Username(u) == IF u = "u1" THEN <<"a">> ELSE <<"a", "a">>

DisplayName(u) == IF u = "u1" THEN <<"A">> ELSE <<"A", "@">>

\* String.prototype.includes
Includes(t, q) ==
    \E i \in 0..(Len(t) - Len(q)) : SubSeq(t, i + 1, i + Len(q)) = q

\* String.prototype.slice(from) and slice(0, to), for offsets that are not
\* negative.
SliceFrom(t, from) == SubSeq(t, from + 1, Len(t))

SliceTo(t, to) == SubSeq(t, 1, IF to < Len(t) THEN to ELSE Len(t))

\* mentionableMembers: the members of the active conversation other than
\* the user whose username or name holds the query's text.
MentionableMembers ==
    IF ~HasConv(conversations, activeConvId) THEN {}
    ELSE LET text == IF mentionQuery.active THEN mentionQuery.text ELSE <<>>
         IN  {u \in Members(activeConvId) \ {Me} :
                 \/ Includes(Lower(Username(u)), text)
                 \/ Includes(Lower(DisplayName(u)), text)}

\* The text handleMentionSelect(username) sets.
MentionInserted(input, index, cursor, username) ==
    SliceTo(input, index) \o <<"@">> \o username \o <<" ">>
        \o SliceFrom(input, cursor)

\* A click on member u in the mention dropdown: handleMentionSelect.  The
\* textarea takes the caret to the end of a value set by the program.
HandleMentionSelect(u) ==
    /\ ComposerShown
    /\ mentionQuery.active
    /\ u \in MentionableMembers
    /\ messageInput' = MentionInserted(messageInput, mentionQuery.index,
                                       selectionStart, Username(u))
    /\ mentionQuery' = NoMention
    /\ selectionStart' = Len(messageInput')
    /\ delivered' = <<>>
    /\ out' = <<>>
    /\ lastAct' = [name |-> "HandleMentionSelect", user |-> u]
    /\ UNCHANGED <<pinVars, fileRead, pinnedConvs>>
    /\ UNCHANGED <<sockFrame, listeners, pendingSend, netVars, pageVars,
                   sending, mediaPreview, uploading, uploadError,
                   typingTimer, sendTrack>>

\* The hold timer of handleInputChange fires, 2000 ms after the last
\* keystroke that left text in the input: it stops the typing signal of the
\* conversation that was active at that keystroke.
TypingTimerFires ==
    /\ typingTimer # NULL
    /\ out' = Emit(<<Packet("typing_stop", typingTimer)>>)
    /\ typingTimer' = NULL
    /\ delivered' = <<>>
    /\ lastAct' = [name |-> "TypingTimerFires"]
    /\ UNCHANGED <<pinVars, editVars>>
    /\ UNCHANGED <<sockFrame, listeners, pendingSend, netVars, pageVars,
                   messageInput, sending, mediaPreview, uploading,
                   uploadError, mentionQuery, sendTrack>>

\* A double click on a message of the timeline: setReplyingTo(msg).  The
\* timeline is not rendered while loadingMsgs is set.
SetReplyingTo(i) ==
    /\ ComposerShown
    /\ ~loadingMsgs
    /\ i \in DOMAIN messages
    /\ replyingTo' = messages[i]
    /\ delivered' = <<>>
    /\ out' = <<>>
    /\ lastAct' = [name |-> "SetReplyingTo"]
    /\ UNCHANGED <<pinVars, editVars>>
    /\ UNCHANGED <<sockFrame, listeners, pendingSend, netVars, conversations,
                   activeConvId, messages, loadingMsgs, typingUsers, dmError,
                   composerVars, sendTrack>>

\* The cancel button of the reply bar: setReplyingTo(null).
CancelReply ==
    /\ replyingTo # NoMessage
    /\ replyingTo' = NoMessage
    /\ delivered' = <<>>
    /\ out' = <<>>
    /\ lastAct' = [name |-> "CancelReply"]
    /\ UNCHANGED <<pinVars, editVars>>
    /\ UNCHANGED <<sockFrame, listeners, pendingSend, netVars, conversations,
                   activeConvId, messages, loadingMsgs, typingUsers, dmError,
                   composerVars, sendTrack>>

(***************************************************************************)
(* handleSend() and sendMessage().                                         *)
(***************************************************************************)
\* A guard that does not look at the send and the upload in flight.
CanSend_WhileBusy ==
    /\ Trim(messageInput) # <<>> \/ mediaPreview # NoPreview
    /\ activeConvId # NULL

\* The guard of handleSend: it returns at once when this is false.
CanSend ==
    /\ Trim(messageInput) # <<>> \/ mediaPreview # NoPreview
    /\ activeConvId # NULL
    /\ ~sending
    /\ ~uploading

\* sendMessage's promise: with no socket it resolves null at once; with a
\* socket it resolves in the acknowledgment callback of the emit.
SendRequest(conv, content, replyToId) ==
    IF globalSocket = NoSocket
    THEN NoSend
    ELSE [stage |-> IF socketConnected THEN "sent" ELSE "buffered",
          conv |-> conv, content |-> content, replyToId |-> replyToId,
          offline |-> ~socketConnected, result |-> NoMessage]

\* The text path of handleSend, up to the await; with no socket the promise
\* is resolved already and the rest of the handler runs in the same task.
SendText ==
    LET content == Trim(messageInput)
        request == SendRequest(activeConvId, content, replyingTo.id)
    IN  /\ replyingTo' = NoMessage
        /\ pendingSend' = request
        /\ IF request = NoSend
           THEN /\ messageInput' = <<>>
                /\ sending' = FALSE
                /\ out' = Emit(<<Packet("typing_stop", activeConvId)>>)
                /\ sendTrack' = [NoTrack EXCEPT !.sent = TRUE,
                                                !.base = Len(messages),
                                                !.acked = TRUE,
                                                !.failed = TRUE]
           ELSE /\ messageInput' = <<>>
                /\ sending' = TRUE
                /\ out' = <<Packet("send_message", activeConvId)>>
                /\ sendTrack' = [NoTrack EXCEPT !.sent = TRUE,
                                                !.base = Len(messages)]
        /\ lastAct' = [name |-> "HandleSend", path |-> "text"]
        /\ UNCHANGED <<mediaPreview, uploading, uploadError, pendingUpload>>

\* A media send that also goes out on the socket.
SendMedia_ViaSocket ==
    /\ uploading' = TRUE
    /\ uploadError' = NULL
    /\ pendingUpload' =
           [stage |-> "requested", conv |-> activeConvId,
            type |-> mediaPreview.type, data |-> mediaPreview.data,
            content |-> Trim(messageInput), replyToId |-> replyingTo.id]
    /\ out' = <<Packet("send_message", activeConvId)>>
    /\ lastAct' = [name |-> "HandleSend", path |-> "media"]
    /\ UNCHANGED <<messageInput, sending, mediaPreview, replyingTo,
                   pendingSend, sendTrack>>

\* handleSendMedia, up to the await of the upload request.
SendMedia ==
    /\ uploading' = TRUE
    /\ uploadError' = NULL
    /\ pendingUpload' =
           [stage |-> "requested", conv |-> activeConvId,
            type |-> mediaPreview.type, data |-> mediaPreview.data,
            content |-> Trim(messageInput), replyToId |-> replyingTo.id]
    /\ out' = <<>>
    /\ lastAct' = [name |-> "HandleSend", path |-> "media"]
    /\ UNCHANGED <<messageInput, sending, mediaPreview, replyingTo,
                   pendingSend, sendTrack>>

\* handleSend(): the Enter key or the send button.
HandleSend ==
    /\ ComposerShown
    /\ IF ~CanSend
       THEN /\ lastAct' = [name |-> "HandleSend", path |-> "none"]
            /\ out' = <<>>
            /\ UNCHANGED <<messageInput, sending, mediaPreview, uploading,
                           uploadError, replyingTo, pendingSend,
                           pendingUpload, sendTrack>>
       ELSE IF mediaPreview # NoPreview THEN SendMedia ELSE SendText
    /\ delivered' = <<>>
    /\ UNCHANGED <<pinVars, editVars>>
    /\ UNCHANGED <<sockFrame, listeners, serverLog, wire, joined, loads,
                   dmRequests, conversations, activeConvId, messages,
                   loadingMsgs, typingUsers, dmError, mentionQuery,
                   typingTimer>>

\* The server handles send_message: it stores the message, broadcasts
\* new_message to the conversation's room, the sender included, and
\* acknowledges with the message; or it acknowledges a failure.
ServerHandleSend(ok) ==
    /\ pendingSend.stage = "sent"
    /\ IF ok
       THEN LET m == NewMessage(pendingSend.conv, Me, pendingSend.content,
                                NoMedia, pendingSend.replyToId)
            IN  /\ Len(serverLog) < MaxMsgs
                /\ serverLog' = Append(serverLog, m)
                /\ wire' = Broadcast(m)
                /\ pendingSend' = [pendingSend EXCEPT !.stage = "acked",
                                                      !.result = m]
                /\ sendTrack' = [sendTrack EXCEPT !.id = m.id]
       ELSE /\ pendingSend' = [pendingSend EXCEPT !.stage = "acked"]
            /\ UNCHANGED <<serverLog, wire, sendTrack>>
    /\ delivered' = <<>>
    /\ out' = <<>>
    /\ lastAct' = [name |-> "ServerHandleSend"]
    /\ UNCHANGED <<pinVars, editVars>>
    /\ UNCHANGED <<sockFrame, listeners, joined, loads, dmRequests,
                   pendingUpload, pageVars, composerVars>>

\* A handler that appends the message sendMessage resolves with.
TimelineAfterAck_Appended(ms, result) ==
    IF result = NoMessage THEN ms ELSE Append(ms, result)

\* The timeline after the acknowledgment of a send: handleSend awaits
\* sendMessage and drops the message it resolves with.
TimelineAfterAck(ms, result) == ms

\* The acknowledgment callback of the emit, and the rest of handleSend:
\* emitTypingStop and the finally block.  sendMessage's promise never
\* rejects (a failure resolves null), so the catch block does not run.
AckArrives ==
    /\ pendingSend.stage = "acked"
    /\ socketConnected
    /\ messages' = TimelineAfterAck(messages, pendingSend.result)
    /\ sending' = FALSE
    /\ out' = Emit(<<Packet("typing_stop", pendingSend.conv)>>)
    /\ pendingSend' = NoSend
    /\ sendTrack' = [sendTrack EXCEPT !.acked = TRUE,
                                      !.failed = pendingSend.result = NoMessage]
    /\ delivered' = <<>>
    /\ lastAct' = [name |-> "AckArrives"]
    /\ UNCHANGED <<pinVars, editVars>>
    /\ UNCHANGED <<sockFrame, listeners, netVars, conversations, activeConvId,
                   loadingMsgs, typingUsers, replyingTo, dmError,
                   messageInput, mediaPreview, uploading, uploadError,
                   mentionQuery, typingTimer>>

(***************************************************************************)
(* The attachment: handleFileSelect(e), the FileReader's callbacks, the    *)
(* clear button of the preview, and handleSendMedia after its await.       *)
(***************************************************************************)
MAX_FILE_SIZE == 2 * 1024 * 1024

\* mime.startsWith(major + '/'), for a MIME type held as <<type, subtype>>;
\* the empty string is the empty tuple.
StartsWithMajor(mime, major) == mime # NoMedia /\ mime[1] = major

\* The files the user picks: at the limit, one byte over it, 3 MiB, a small
\* video, a text file, and a file whose type the browser does not know.
Files ==
    { [name |-> "exact.png", size |-> MAX_FILE_SIZE, type |-> <<"image", "png">>],
      [name |-> "over.png", size |-> MAX_FILE_SIZE + 1,
       type |-> <<"image", "png">>],
      [name |-> "big.png", size |-> 3 * 1024 * 1024,
       type |-> <<"image", "png">>],
      [name |-> "clip.mp4", size |-> 1, type |-> <<"video", "mp4">>],
      [name |-> "notes.txt", size |-> 1, type |-> <<"text", "plain">>],
      [name |-> "blob", size |-> 1, type |-> NoMedia] }

\* A size check that turns away a file of exactly the limit.
TooLarge_AtLimit(file) == file.size >= MAX_FILE_SIZE

\* file.size > MAX_FILE_SIZE
TooLarge(file) == file.size > MAX_FILE_SIZE

\* !isImage && !isVideo
WrongType(file) ==
    /\ ~StartsWithMajor(file.type, "image")
    /\ ~StartsWithMajor(file.type, "video")

\* The error handleFileSelect shows for the file, null when it reads it.
FileError(file) ==
    IF TooLarge(file) THEN "File too large"
    ELSE IF WrongType(file) THEN "Only images and videos are supported."
    ELSE NULL

\* reader.result of readAsDataURL(file): the file's type and its content,
\* which the file's name stands for.
DataUrl(file) == <<"data", file.type, "base64", file.name>>

\* The preview reader.onload stages.
PreviewOf(file) ==
    [type |-> file.type, data |-> DataUrl(file), name |-> file.name]

\* handleFileSelect(e) with e.target.files[0] = file.
HandleFileSelect(file) ==
    /\ ComposerShown
    /\ IF FileError(file) # NULL
       THEN /\ uploadError' = FileError(file)
            /\ UNCHANGED fileRead
       ELSE /\ Len(fileRead) < MaxReads
            /\ uploadError' = NULL
            /\ fileRead' = Append(fileRead, file)
    /\ delivered' = <<>>
    /\ out' = <<>>
    /\ lastAct' = [name |-> "HandleFileSelect", file |-> file.name]
    /\ UNCHANGED <<pinVars, selectionStart, pinnedConvs>>
    /\ UNCHANGED <<sockFrame, listeners, pendingSend, netVars, pageVars,
                   messageInput, sending, mediaPreview, uploading,
                   mentionQuery, typingTimer, sendTrack>>

\* reader.onload of the i-th read in flight.
FileReaderLoad(i) ==
    /\ i \in DOMAIN fileRead
    /\ mediaPreview' = PreviewOf(fileRead[i])
    /\ fileRead' = RemoveAt(fileRead, i)
    /\ delivered' = <<>>
    /\ out' = <<>>
    /\ lastAct' = [name |-> "FileReaderLoad"]
    /\ UNCHANGED <<pinVars, selectionStart, pinnedConvs>>
    /\ UNCHANGED <<sockFrame, listeners, pendingSend, netVars, pageVars,
                   messageInput, sending, uploading, uploadError,
                   mentionQuery, typingTimer, sendTrack>>

\* reader.onerror of the i-th read in flight.
FileReaderError(i) ==
    /\ i \in DOMAIN fileRead
    /\ uploadError' = "Failed to read file."
    /\ fileRead' = RemoveAt(fileRead, i)
    /\ delivered' = <<>>
    /\ out' = <<>>
    /\ lastAct' = [name |-> "FileReaderError"]
    /\ UNCHANGED <<pinVars, selectionStart, pinnedConvs>>
    /\ UNCHANGED <<sockFrame, listeners, pendingSend, netVars, pageVars,
                   messageInput, sending, mediaPreview, uploading,
                   mentionQuery, typingTimer, sendTrack>>

\* The clear button of the preview; it is disabled during an upload.
ClearPreview ==
    /\ ComposerShown
    /\ mediaPreview # NoPreview
    /\ ~uploading
    /\ mediaPreview' = NoPreview
    /\ uploadError' = NULL
    /\ delivered' = <<>>
    /\ out' = <<>>
    /\ lastAct' = [name |-> "ClearPreview"]
    /\ UNCHANGED <<pinVars, editVars>>
    /\ UNCHANGED <<sockFrame, listeners, pendingSend, netVars, pageVars,
                   messageInput, sending, uploading, mentionQuery,
                   typingTimer, sendTrack>>

\* The server answers the media request: it stores the message and
\* broadcasts it to the conversation's room, or it answers an error.
ServerAnswerUpload(ok) ==
    /\ pendingUpload.stage = "requested"
    /\ IF ok
       THEN LET m == NewMessage(pendingUpload.conv, Me, pendingUpload.content,
                                pendingUpload.type, pendingUpload.replyToId)
            IN  /\ Len(serverLog) < MaxMsgs
                /\ serverLog' = Append(serverLog, m)
                /\ wire' = Broadcast(m)
                /\ pendingUpload' = [pendingUpload EXCEPT !.stage = "ok"]
       ELSE /\ pendingUpload' = [pendingUpload EXCEPT !.stage = "failed"]
            /\ UNCHANGED <<serverLog, wire>>
    /\ delivered' = <<>>
    /\ out' = <<>>
    /\ lastAct' = [name |-> "ServerAnswerUpload"]
    /\ UNCHANGED <<pinVars, editVars>>
    /\ UNCHANGED <<sockFrame, listeners, pendingSend, joined, loads,
                   dmRequests, pageVars, composerVars, sendTrack>>

\* handleSendMedia after the await: the try block's rest or the catch
\* block, then the finally block.
UploadSettle ==
    /\ pendingUpload.stage \in {"ok", "failed"}
    /\ IF pendingUpload.stage = "ok"
       THEN /\ mediaPreview' = NoPreview
            /\ messageInput' = <<>>
            /\ replyingTo' = NoMessage
            /\ UNCHANGED uploadError
       ELSE /\ uploadError' = "Failed to send media"
            /\ UNCHANGED <<mediaPreview, messageInput, replyingTo>>
    /\ uploading' = FALSE
    /\ pendingUpload' = NoUpload
    /\ delivered' = <<>>
    /\ out' = <<>>
    /\ lastAct' = [name |-> "UploadSettle", ok |-> pendingUpload.stage = "ok"]
    /\ UNCHANGED <<pinVars, editVars>>
    /\ UNCHANGED <<sockFrame, listeners, pendingSend, serverLog, wire, joined,
                   loads, dmRequests, conversations, activeConvId, messages,
                   loadingMsgs, typingUsers, dmError, sending, mentionQuery,
                   typingTimer, sendTrack>>

(***************************************************************************)
(* The favorites: togglePin(convId) and the order of the sidebar sections. *)
(***************************************************************************)
\* togglePin(convId): the star of an entry of the sidebar.
TogglePin(convId) ==
    /\ HasConv(conversations, convId)
    /\ pinnedConvs' =
           IF convId \in Range(pinnedConvs)
           THEN SelectSeq(pinnedConvs, LAMBDA id : id # convId)
           ELSE Append(pinnedConvs, convId)
    /\ delivered' = <<>>
    /\ out' = <<>>
    /\ lastAct' = [name |-> "TogglePin"]
    /\ UNCHANGED <<pinVars, selectionStart, fileRead>>
    /\ UNCHANGED <<sockFrame, listeners, pendingSend, netVars, pageVars,
                   composerVars, sendTrack>>

\* A comparator that does not look at the favorites.
SortConvs_Recency(a, b) == 0

\* sortConvs(a, b): negative when a goes first, positive when b does.
SortConvs(a, b) ==
    LET aPinned == a.id \in Range(pinnedConvs)
        bPinned == b.id \in Range(pinnedConvs)
    IN  IF aPinned /\ ~bPinned THEN -1
        ELSE IF ~aPinned /\ bPinned THEN 1
        ELSE 0

\* Array.prototype.sort(sortConvs): a stable sort; c goes in front of the
\* first entry it has to precede.
RECURSIVE InsertSorted(_, _)
InsertSorted(sorted, c) ==
    IF sorted = <<>>
    THEN <<c>>
    ELSE IF SortConvs(c, Head(sorted)) < 0
         THEN <<c>> \o sorted
         ELSE <<Head(sorted)>> \o InsertSorted(Tail(sorted), c)

RECURSIVE Sorted(_)
Sorted(cs) ==
    IF cs = <<>> THEN <<>>
    ELSE InsertSorted(Sorted(SubSeq(cs, 1, Len(cs) - 1)), cs[Len(cs)])

\* sortedGroups and sortedDms, with no search filter: the entries of the
\* directory of one type, sorted.
SortedSection(type) ==
    Sorted(SelectSeq(conversations, LAMBDA c : c.type = type))

(***************************************************************************)
(* The pinned slot: handleToggleGlobalPin(message), pinMessage and the     *)
(* pinned_message_updated handler.                                         *)
(***************************************************************************)
\* The pinned message of conversation conv in the directory cs: activeConv
\* ?.pinned_message, null when the conversation is not in the directory.
PinnedIn(cs, conv) ==
    IF HasConv(cs, conv) THEN cs[ConvIndex(cs, conv)].pinned_message
    ELSE NoMessage

\* An update that empties the slot when it holds the message already.
WithPinned_Toggled(cs, conv, pm) ==
    [i \in DOMAIN cs |->
        IF cs[i].id = conv
        THEN [cs[i] EXCEPT !.pinned_message = IF @ = pm THEN NoMessage ELSE pm]
        ELSE cs[i]]

\* prev.map(c => c.id === conv ? { ...c, pinned_message: pm } : c)
\* An update that writes the slot of every conversation.
WithPinned_All(cs, conv, pm) ==
    [i \in DOMAIN cs |-> [cs[i] EXCEPT !.pinned_message = pm]]

WithPinned(cs, conv, pm) ==
    [i \in DOMAIN cs |->
        IF cs[i].id = conv THEN [cs[i] EXCEPT !.pinned_message = pm]
        ELSE cs[i]]

\* A handler that always asks for the message.
PinTarget_Always(message, isCurrentlyPinned) == message

\* isCurrentlyPinned ? null : message
PinTarget(message, isCurrentlyPinned) ==
    IF isCurrentlyPinned THEN NoMessage ELSE message

\* The messages the pin button can be pressed on: those of the timeline and
\* the one in the pinned banner.
Pinnable ==
    (IF loadingMsgs THEN {} ELSE Range(messages))
        \cup ({PinnedIn(conversations, activeConvId)} \ {NoMessage})

\* The run of pin actions after an action on message with the given flag.
PinTracked(message, isCurrentlyPinned) ==
    IF pinTrack.count = 1 /\ pinTrack.msg = message.id
    THEN [pinTrack EXCEPT !.count = 2, !.both = ~isCurrentlyPinned]
    ELSE IF ~isCurrentlyPinned /\ pinRequests = <<>> /\ pinWire = <<>>
         THEN [NoPinTrack EXCEPT !.msg = message.id, !.count = 1]
         ELSE NoPinTrack

\* handleToggleGlobalPin(message), up to the await of pinMessage.
HandleToggleGlobalPin(message) ==
    /\ ComposerShown
    /\ message \in Pinnable
    /\ Len(pinRequests) < MaxPins
    /\ LET isCurrentlyPinned ==
               PinnedIn(conversations, activeConvId).id = message.id
       IN  /\ pinRequests' =
                  Append(pinRequests,
                         [conv |-> activeConvId, stage |-> "requested",
                          target |-> PinTarget(message, isCurrentlyPinned)])
           /\ pinTrack' = PinTracked(message, isCurrentlyPinned)
    /\ delivered' = <<>>
    /\ out' = <<>>
    /\ lastAct' = [name |-> "HandleToggleGlobalPin", msg |-> message.id]
    /\ UNCHANGED <<sockFrame, listeners, pendingSend, netVars, pageVars,
                   composerVars, sendTrack, serverPinned, pinWire, editVars>>

\* The pinned_message_updated broadcast of the server reaches this client
\* when its connection is in the conversation's room.
PinBroadcast(conv, pm) ==
    IF globalSocket # NoSocket /\ socketConnected /\ conv \in joined
    THEN Append(pinWire, [conversationId |-> conv, pinnedMessage |-> pm])
    ELSE pinWire

\* The server answers pin request i: it sets the slot and broadcasts the
\* update to the room, or it answers with an error status.
ServerAnswerPin(i, ok) ==
    /\ i \in DOMAIN pinRequests
    /\ pinRequests[i].stage = "requested"
    /\ IF ok
       THEN /\ Len(pinWire) < MaxPins
            /\ serverPinned' =
                   [serverPinned EXCEPT
                       ![pinRequests[i].conv] = pinRequests[i].target]
            /\ pinWire' = PinBroadcast(pinRequests[i].conv,
                                       pinRequests[i].target)
            /\ pinRequests' = [pinRequests EXCEPT ![i].stage = "ok"]
       ELSE /\ pinRequests' = [pinRequests EXCEPT ![i].stage = "failed"]
            /\ UNCHANGED <<serverPinned, pinWire>>
    /\ delivered' = <<>>
    /\ out' = <<>>
    /\ lastAct' = [name |-> "ServerAnswerPin"]
    /\ UNCHANGED <<sockFrame, listeners, pendingSend, netVars, pageVars,
                   composerVars, sendTrack, pinTrack, editVars>>

\* A handler that updates the directory whatever the answer was.
PinSettled_Unconditional(cs, request) ==
    WithPinned(cs, request.conv, request.target)

\* The directory after pinMessage has settled: the update after the await
\* when it resolved, nothing when it threw.
PinSettled(cs, request) ==
    IF request.stage = "ok"
    THEN WithPinned(cs, request.conv, request.target)
    ELSE cs

\* The continuation of handleToggleGlobalPin after its await.
PinSettle(i) ==
    /\ i \in DOMAIN pinRequests
    /\ pinRequests[i].stage \in {"ok", "failed"}
    /\ conversations' = PinSettled(conversations, pinRequests[i])
    /\ pinRequests' = RemoveAt(pinRequests, i)
    /\ pinTrack' =
           IF pinRequests[i].stage = "failed" /\ pinTrack.count > 0
           THEN [pinTrack EXCEPT !.failed = TRUE]
           ELSE pinTrack
    /\ delivered' = <<>>
    /\ out' = <<>>
    /\ lastAct' = [name |-> "PinSettle", request |-> pinRequests[i]]
    /\ UNCHANGED <<sockFrame, listeners, pendingSend, netVars, activeConvId,
                   messages, loadingMsgs, typingUsers, replyingTo, dmError,
                   composerVars, sendTrack, serverPinned, pinWire, editVars>>

\* The socket delivers the oldest pinned_message_updated event.
OnPinnedMessageUpdated ==
    /\ Receives("pinned_message_updated")
    /\ pinWire # <<>>
    /\ conversations' =
           WithPinned(conversations, Head(pinWire).conversationId,
                      Head(pinWire).pinnedMessage)
    /\ pinWire' = Tail(pinWire)
    /\ delivered' = listeners["pinned_message_updated"]
    /\ out' = <<>>
    /\ lastAct' = [name |-> "OnPinnedMessageUpdated"]
    /\ UNCHANGED <<sockFrame, listeners, pendingSend, netVars, activeConvId,
                   messages, loadingMsgs, typingUsers, replyingTo, dmError,
                   composerVars, sendTrack, serverPinned, pinRequests,
                   pinTrack, editVars>>

\* Another member pins message pm of conversation c, or empties the slot.
ServerPinByOther(c, pm) ==
    /\ pm = NoMessage \/ (pm \in Range(serverLog) /\ pm.conversation_id = c)
    /\ pm # serverPinned[c]
    /\ Len(pinWire) < MaxPins
    /\ serverPinned' = [serverPinned EXCEPT ![c] = pm]
    /\ pinWire' = PinBroadcast(c, pm)
    /\ pinTrack' = NoPinTrack
    /\ delivered' = <<>>
    /\ out' = <<>>
    /\ lastAct' = [name |-> "ServerPinByOther"]
    /\ UNCHANGED <<sockFrame, listeners, pendingSend, netVars, pageVars,
                   composerVars, sendTrack, pinRequests, editVars>>

(***************************************************************************)
(* The initial states.                                                     *)
(***************************************************************************)
\* The network with nothing in flight and the chat page's state as its
\* useState calls initialise it.
ChatIdle ==
    /\ pendingSend = NoSend
    /\ out = <<>>
    /\ serverLog = <<>>
    /\ wire = {}
    /\ joined = {}
    /\ loads = <<>>
    /\ dmRequests = [u \in RemoteUsers |-> "none"]
    /\ pendingUpload = NoUpload
    /\ conversations = <<>>
    /\ activeConvId = NULL
    /\ messages = <<>>
    /\ loadingMsgs = FALSE
    /\ typingUsers = <<>>
    /\ replyingTo = NoMessage
    /\ messageInput = <<>>
    /\ sending = FALSE
    /\ mediaPreview = NoPreview
    /\ uploading = FALSE
    /\ uploadError = NULL
    /\ mentionQuery = NoMention
    /\ typingTimer = NULL
    /\ dmError = NULL
    /\ sendTrack = NoTrack
    /\ selectionStart = 0
    /\ fileRead = <<>>
    /\ serverPinned = [c \in ConvIds |-> NoMessage]
    /\ pinRequests = <<>>
    /\ pinWire = <<>>
    /\ pinTrack = NoPinTrack
    /\ pinnedConvs = <<>>

(***************************************************************************)
(* The connection manager's reference counting: components mounting and    *)
(* unmounting, the session's token and the transport's connectivity.       *)
(***************************************************************************)
SocketInit ==
    /\ token \in BOOLEAN
    /\ globalSocket = NoSocket
    /\ openSockets = {}
    /\ connectionCount = 0
    /\ consumers = [c \in Consumers |-> "unmounted"]
    /\ socketConnected = FALSE
    /\ isConnected = [c \in Consumers |-> FALSE]
    /\ connListeners = {}
    /\ listeners = NoListeners
    /\ delivered = <<>>
    /\ ChatIdle
    /\ lastAct = [name |-> "Init"]

SocketNext ==
    \/ \E c \in Consumers : Mount(c)
    \/ \E c \in Consumers : Unmount(c)
    \/ Login
    \/ Logout
    \/ SocketConnect
    \/ SocketDisconnect

SpecSocket == SocketInit /\ [][SocketNext]_vars

(***************************************************************************)
(* The connection manager's subscriptions: one component holds the         *)
(* transport (and may drop and reopen it) while callbacks are subscribed,  *)
(* unsubscribed and invoked.                                               *)
(***************************************************************************)
SubsInit == SocketInit /\ token

SubsNext ==
    \/ Mount(1)
    \/ Unmount(1)
    \/ SocketConnect
    \/ SocketDisconnect
    \/ \E ev \in EventNames, fn \in Handlers : Subscribe(ev, fn)
    \/ \E ev \in EventNames, fn \in Handlers : Unsubscribe(ev, fn)
    \/ \E ev \in EventNames : Dispatch(ev)

SpecSubs == SubsInit /\ [][SubsNext]_vars

(***************************************************************************)
(* The chat page, mounted: its useSocket effect and its subscription       *)
(* effects have run, listConversations has resolved with conversations A   *)
(* and B, and the server has put the connection in their rooms.            *)
(***************************************************************************)
ChatListeners ==
    [ev \in EventNames |-> IF token THEN <<ChatPage>> ELSE <<>>]

ChatMounted ==
    /\ consumers =
           [c \in Consumers |->
               IF c # ChatPage THEN "unmounted"
               ELSE IF token THEN "registered" ELSE "noToken"]
    /\ connectionCount = (IF token THEN 1 ELSE 0)
    /\ globalSocket = (IF token THEN 1 ELSE NoSocket)
    /\ openSockets = (IF token THEN {1} ELSE {})
    /\ connListeners = (IF token THEN {ChatPage} ELSE {})
    /\ isConnected = [c \in Consumers |-> c = ChatPage /\ socketConnected]
    /\ listeners = ChatListeners
    /\ delivered = <<>>
    /\ pendingSend = NoSend
    /\ out = <<>>
    /\ serverLog = <<>>
    /\ wire = {}
    /\ joined = (IF token THEN {"A", "B"} ELSE {})
    /\ loads = <<>>
    /\ dmRequests = [u \in RemoteUsers |-> "none"]
    /\ pendingUpload = NoUpload
    /\ conversations = <<Conv("A"), Conv("B")>>
    /\ messages = <<>>
    /\ loadingMsgs = FALSE
    /\ typingUsers = <<>>
    /\ replyingTo = NoMessage
    /\ messageInput = <<>>
    /\ sending = FALSE
    /\ mediaPreview = NoPreview
    /\ uploading = FALSE
    /\ uploadError = NULL
    /\ mentionQuery = NoMention
    /\ typingTimer = NULL
    /\ dmError = NULL
    /\ sendTrack = NoTrack
    /\ selectionStart = 0
    /\ fileRead = <<>>
    /\ serverPinned = [c \in ConvIds |-> NoMessage]
    /\ pinRequests = <<>>
    /\ pinWire = <<>>
    /\ pinTrack = NoPinTrack
    /\ pinnedConvs = <<>>
    /\ lastAct = [name |-> "Init"]

(***************************************************************************)
(* The timeline: conversations are selected, their messages are loaded,    *)
(* other members post, and new_message events arrive in any order and      *)
(* possibly more than once.                                                *)
(***************************************************************************)
TimelineInit ==
    /\ token = TRUE
    /\ socketConnected = TRUE
    /\ activeConvId = NULL
    /\ ChatMounted

TimelineNext ==
    \/ \E c \in {"A", "B"} : ServerPost(c, "u1", <<"a">>, NoMedia)
    \/ \E c \in ConvIds : HandleSelectConversation(c)
    \/ \E i \in 1..MaxLoads, ok \in BOOLEAN : ServerAnswerLoad(i, ok)
    \/ \E i \in 1..MaxLoads : LoadResolve(i)
    \/ \E i \in 1..MaxLoads : LoadReject(i)
    \/ \E m \in wire, again \in BOOLEAN : OnNewMessage(m, again)

SpecTimeline == TimelineInit /\ [][TimelineNext]_vars

(***************************************************************************)
(* The timeline of one conversation: A is opened and its messages are      *)
(* loaded while other members post to A and to B, and the new_message      *)
(* events arrive in any order, before or after the load resolves, and      *)
(* possibly more than once.                                                *)
(***************************************************************************)
AppendNext ==
    \/ \E c \in {"A", "B"} : ServerPost(c, "u1", <<"a">>, NoMedia)
    \/ HandleSelectConversation("A")
    \/ \E i \in 1..MaxLoads : ServerAnswerLoad(i, TRUE)
    \/ \E i \in 1..MaxLoads : LoadResolve(i)
    \/ \E m \in wire, again \in BOOLEAN : OnNewMessage(m, again)

SpecAppend == TimelineInit /\ [][AppendNext]_vars

(***************************************************************************)
(* The composer's text send: conversation A is active and its (empty)      *)
(* history is loaded; the user drafts and sends, the server accepts or     *)
(* rejects, the acknowledgment and the broadcast arrive in either order,   *)
(* and the transport connects and disconnects.  The page may have mounted  *)
(* with no token stored, and then there is no socket.                      *)
(***************************************************************************)
SendInit ==
    /\ token \in BOOLEAN
    /\ socketConnected \in (IF token THEN BOOLEAN ELSE {FALSE})
    /\ activeConvId = "A"
    /\ ChatMounted

\* The drafts typed, with the cursor at the end: empty, blank, a word, and a
\* word with white space around it.
Drafts == {t \in Texts : Trim(t) \in {<<>>, <<"a">>}}

SendNext ==
    \/ \E val \in Drafts : HandleInputChange(val, Len(val))
    \/ HandleSend
    \/ \E ok \in BOOLEAN : ServerHandleSend(ok)
    \/ AckArrives
    \/ \E m \in wire, again \in BOOLEAN : OnNewMessage(m, again)
    \/ SocketConnect
    \/ SocketDisconnect

SpecSend == SendInit /\ [][SendNext]_vars

(***************************************************************************)
(* The typing set: the other members start and stop typing while the       *)
(* active conversation changes from the sidebar and by opening a direct    *)
(* conversation.                                                           *)
(***************************************************************************)
TypingNext ==
    \/ \E c \in ConvIds : HandleSelectConversation(c)
    \/ \E u \in RemoteUsers : HandleCreateDm(u)
    \/ \E u \in RemoteUsers, ok \in BOOLEAN : ServerAnswerDm(u, ok)
    \/ \E u \in RemoteUsers : CreateDmResolve(u)
    \/ \E u \in RemoteUsers : CreateDmReject(u)
    \/ \E c \in ConvIds, u \in RemoteUsers \cup {Me} : OnTyping(c, u)
    \/ \E c \in ConvIds, u \in RemoteUsers \cup {Me} : OnStopTyping(c, u)
    \/ \E i \in 1..MaxLoads : ServerAnswerLoad(i, TRUE)
    \/ \E i \in 1..MaxLoads : LoadResolve(i)

SpecTyping == TimelineInit /\ [][TypingNext]_vars

(***************************************************************************)
(* The typing events alone: the members start and stop typing in every     *)
(* conversation while the user moves between A and B in the sidebar.       *)
(***************************************************************************)
TypingSetNext ==
    \/ \E c \in {"A", "B"} : HandleSelectConversation(c)
    \/ \E c \in ConvIds, u \in RemoteUsers \cup {Me} : OnTyping(c, u)
    \/ \E c \in ConvIds, u \in RemoteUsers \cup {Me} : OnStopTyping(c, u)
    \/ \E i \in 1..MaxLoads : ServerAnswerLoad(i, TRUE)
    \/ \E i \in 1..MaxLoads : LoadResolve(i)

SpecTypingSet == TimelineInit /\ [][TypingSetNext]_vars

(***************************************************************************)
(* The pinned slot of conversation A.  Another member posted messages 1    *)
(* and 2 to A before the page mounted; the page has listed the             *)
(* conversations, A is active and its history is loaded.  The user presses *)
(* the pin button, the server answers, other members pin and unpin, and    *)
(* the responses and the broadcasts arrive.                                *)
(***************************************************************************)
Posted(id) ==
    [id |-> id, conversation_id |-> "A", sender_id |-> "u1",
     content |-> <<"a">>, media_type |-> NoMedia, reply_to_id |-> 0,
     created_at |-> id]

PinInit ==
    /\ token = TRUE
    /\ socketConnected = TRUE
    /\ activeConvId = "A"
    /\ consumers = [c \in Consumers |->
                       IF c = ChatPage THEN "registered" ELSE "unmounted"]
    /\ connectionCount = 1
    /\ globalSocket = 1
    /\ openSockets = {1}
    /\ connListeners = {ChatPage}
    /\ isConnected = [c \in Consumers |-> c = ChatPage]
    /\ listeners = ChatListeners
    /\ delivered = <<>>
    /\ pendingSend = NoSend
    /\ out = <<>>
    /\ serverLog = <<Posted(1), Posted(2)>>
    /\ wire = {}
    /\ joined = {"A", "B"}
    /\ loads = <<>>
    /\ dmRequests = [u \in RemoteUsers |-> "none"]
    /\ pendingUpload = NoUpload
    /\ conversations =
           <<[Conv("A") EXCEPT !.last_message = <<"a">>,
                               !.last_message_at = 2],
             Conv("B")>>
    /\ messages = <<Posted(1), Posted(2)>>
    /\ loadingMsgs = FALSE
    /\ typingUsers = <<>>
    /\ replyingTo = NoMessage
    /\ messageInput = <<>>
    /\ sending = FALSE
    /\ mediaPreview = NoPreview
    /\ uploading = FALSE
    /\ uploadError = NULL
    /\ mentionQuery = NoMention
    /\ typingTimer = NULL
    /\ dmError = NULL
    /\ sendTrack = NoTrack
    /\ selectionStart = 0
    /\ fileRead = <<>>
    /\ serverPinned = [c \in ConvIds |-> NoMessage]
    /\ pinRequests = <<>>
    /\ pinWire = <<>>
    /\ pinTrack = NoPinTrack
    /\ pinnedConvs = <<>>
    /\ lastAct = [name |-> "Init"]

PinNext ==
    \/ \E m \in Pinnable : HandleToggleGlobalPin(m)
    \/ \E i \in 1..MaxPins, ok \in BOOLEAN : ServerAnswerPin(i, ok)
    \/ \E i \in 1..MaxPins : PinSettle(i)
    \/ OnPinnedMessageUpdated
    \/ \E pm \in Range(serverLog) \cup {NoMessage} : ServerPinByOther("A", pm)

SpecPin == PinInit /\ [][PinNext]_vars

(***************************************************************************)
(* The sidebar and the pinned slot together.  The directory is the one the *)
(* server listed, or it is empty because loading it failed; the user       *)
(* stars entries, another user opens a direct conversation, messages are   *)
(* pinned by the user and by other members.                                 *)
(***************************************************************************)
FavInit ==
    /\ token = TRUE
    /\ socketConnected = TRUE
    /\ conversations \in
           {<<>>, <<[Conv("A") EXCEPT !.last_message = <<"a">>,
                                     !.last_message_at = 2],
                    Conv("B")>>}
    /\ activeConvId = (IF conversations = <<>> THEN NULL ELSE "A")
    /\ consumers = [c \in Consumers |->
                       IF c = ChatPage THEN "registered" ELSE "unmounted"]
    /\ connectionCount = 1
    /\ globalSocket = 1
    /\ openSockets = {1}
    /\ connListeners = {ChatPage}
    /\ isConnected = [c \in Consumers |-> c = ChatPage]
    /\ listeners = ChatListeners
    /\ delivered = <<>>
    /\ pendingSend = NoSend
    /\ out = <<>>
    /\ serverLog = <<Posted(1), Posted(2)>>
    /\ wire = {}
    /\ joined = {"A", "B"}
    /\ loads = <<>>
    /\ dmRequests = [u \in RemoteUsers |-> "none"]
    /\ pendingUpload = NoUpload
    /\ messages =
           (IF conversations = <<>> THEN <<>> ELSE <<Posted(1), Posted(2)>>)
    /\ loadingMsgs = FALSE
    /\ typingUsers = <<>>
    /\ replyingTo = NoMessage
    /\ messageInput = <<>>
    /\ sending = FALSE
    /\ mediaPreview = NoPreview
    /\ uploading = FALSE
    /\ uploadError = NULL
    /\ mentionQuery = NoMention
    /\ typingTimer = NULL
    /\ dmError = NULL
    /\ sendTrack = NoTrack
    /\ selectionStart = 0
    /\ fileRead = <<>>
    /\ serverPinned = [c \in ConvIds |-> NoMessage]
    /\ pinRequests = <<>>
    /\ pinWire = <<>>
    /\ pinTrack = NoPinTrack
    /\ pinnedConvs = <<>>
    /\ lastAct = [name |-> "Init"]

FavNext ==
    \/ \E c \in {"B", "C"} : TogglePin(c)
    \/ OnNewConversation("C")
    \/ HandleToggleGlobalPin(Posted(1))
    \/ \E i \in 1..MaxPins : ServerAnswerPin(i, TRUE)
    \/ \E i \in 1..MaxPins : PinSettle(i)
    \/ OnPinnedMessageUpdated
    \/ \E pm \in {Posted(2), NoMessage} : ServerPinByOther("A", pm)

SpecFav == FavInit /\ [][FavNext]_vars

(***************************************************************************)
(* Properties of the connection manager.                                   *)
(***************************************************************************)
Registered == {c \in Consumers : consumers[c] = "registered"}

\* C7: at most one transport is open at any time, and it is the shared one;
\* a mount opens a transport only with a token and no transport existing, a
\* mount with a transport existing reuses it, and a mount without a token
\* opens nothing and registers nothing.
C7_SingleTransport ==
    /\ [](/\ Cardinality(openSockets) <= 1
          /\ globalSocket # NoSocket => openSockets = {globalSocket})
    /\ [][lastAct'.name = "Mount" =>
            /\ openSockets' # openSockets => token /\ globalSocket = NoSocket
            /\ token /\ globalSocket # NoSocket =>
                   /\ globalSocket' = globalSocket
                   /\ openSockets' = openSockets
                   /\ connectionCount' = connectionCount + 1
            /\ ~token => UNCHANGED <<globalSocket, openSockets,
                                     connectionCount, connListeners>>]_vars

\* A second component has mounted and shares the transport the first opened.
C7_Witness ==
    /\ lastAct.name = "Mount"
    /\ connectionCount = 2
    /\ openSockets = {globalSocket}

\* C8: the counter is the number of registered consumers and never negative,
\* the transport exists exactly when the counter is positive, an unmount that
\* leaves the counter positive leaves the transport alone, and a transport is
\* closed only by the unmount that brings the counter to zero.
C8_RefCountedTeardown ==
    /\ [](/\ connectionCount = Cardinality(Registered)
          /\ connectionCount >= 0
          /\ globalSocket # NoSocket <=> connectionCount > 0)
    /\ [][/\ lastAct'.name = "Unmount" /\ connectionCount' > 0 =>
                UNCHANGED <<globalSocket, openSockets, socketConnected>>
          /\ openSockets \ openSockets' # {} =>
                lastAct'.name = "Unmount" /\ connectionCount' = 0]_vars

\* One of two registered components has unmounted; the transport is still up.
C8_Witness ==
    /\ lastAct.name = "Unmount"
    /\ connectionCount = 1
    /\ globalSocket # NoSocket
    /\ socketConnected

\* C9: calling the unsubscribe closure of callback fn for event ev leaves the
\* registrations of every other callback of ev, and of every callback of every
\* other event, as they were, and an event is then delivered to every callback
\* still registered for it.
C9_UnsubscribeOnlyThat ==
    [][/\ lastAct'.name = "Unsubscribe" =>
             \A e2 \in EventNames, f2 \in Handlers :
                 <<e2, f2>> # <<lastAct'.ev, lastAct'.fn>> =>
                     /\ Count(listeners'[e2], f2) = Count(listeners[e2], f2)
                     /\ Count(listeners[e2], f2) > 0 =>
                            \E i \in DOMAIN listeners'[e2] :
                                listeners'[e2][i] = f2
       /\ lastAct'.name = "Dispatch" =>
             \A f \in Handlers :
                 Count(delivered', f) = Count(listeners[lastAct'.ev], f)]_vars

\* Two callbacks were subscribed to one event, one of them was unsubscribed
\* and the other is still registered.
C9_Witness ==
    /\ lastAct.name = "Unsubscribe"
    /\ lastAct.removed
    /\ \E f \in Handlers :
           f # lastAct.fn /\ Count(listeners[lastAct.ev], f) > 0

(***************************************************************************)
(* Properties of the timeline.                                             *)
(***************************************************************************)
Ids(ms) == [i \in DOMAIN ms |-> ms[i].id]

\* C1: once no load of the active conversation is in flight, the continuation
\* of a load requested earlier for another conversation leaves the timeline
\* as it is.
C1_StaleLoadDiscarded ==
    [][\A i \in 1..MaxLoads :
           /\ LoadResolve(i)
           /\ loads[i].conv # activeConvId
           /\ \A j \in DOMAIN loads : loads[j].conv # activeConvId
           => messages' = messages]_vars

\* C2: no message id is in the timeline twice; the handling of a new_message
\* event of the active conversation leaves the event's id in the timeline
\* exactly once, and leaves the timeline as it is when the id was in it.
C2_EachIdOnce ==
    /\ [](\A i, j \in DOMAIN messages :
              messages[i].id = messages[j].id => i = j)
    /\ [][\A m \in wire, again \in BOOLEAN :
              OnNewMessage(m, again) /\ m.conversation_id = activeConvId =>
                  /\ Count(Ids(messages'), m.id) = 1
                  /\ HasMessage(messages, m.id) => messages' = messages]_vars

\* A new_message event whose id was in the timeline has been handled.
C2_Witness ==
    /\ lastAct.name = "OnNewMessage"
    /\ lastAct.known
    /\ messages # <<>>

\* C3: the timeline is in the order of the messages' creation times.
C3_TimelineInTimeOrder ==
    \A i, j \in DOMAIN messages :
        i < j => messages[i].created_at <= messages[j].created_at

(***************************************************************************)
(* Properties of the text send.                                            *)
(***************************************************************************)
\* C4: once the acknowledgment of a successful send and the broadcast of the
\* sent message have both been handled, in either order, the timeline is one
\* message longer than it is without the sent message.
C4_SendAddsOne ==
    sendTrack.acked /\ sendTrack.echoed /\ ~sendTrack.failed =>
        Len(messages) = sendTrack.base + 1

\* The acknowledgment and the broadcast of a sent message have been handled.
C4_Witness ==
    /\ sendTrack.acked
    /\ sendTrack.echoed
    /\ ~sendTrack.failed
    /\ sendTrack.id # 0
    /\ HasMessage(messages, sendTrack.id)

\* C5: a text send that fails, with no socket or by an acknowledgment without
\* a message, puts the trimmed draft back in the input.
C5_FailedSendRestoresDraft ==
    [][/\ lastAct'.name = "HandleSend" /\ lastAct'.path = "text"
          /\ globalSocket = NoSocket =>
              messageInput' = Trim(messageInput)
       /\ lastAct'.name = "AckArrives" /\ pendingSend.result = NoMessage =>
              messageInput' = pendingSend.content]_vars

\* C6: no send issued while the transport was disconnected is kept for a
\* later connect, on the client or on its way to the server.
C6_OfflineSendFails ==
    pendingSend.stage = "none" \/ ~pendingSend.offline

(***************************************************************************)
(* The attachment of a conversation that is open: files are picked, read,  *)
(* staged, cleared and sent with or without a caption.                      *)
(***************************************************************************)
MediaInit ==
    /\ token = TRUE
    /\ socketConnected = TRUE
    /\ activeConvId = "A"
    /\ ChatMounted

MediaNext ==
    \/ \E file \in Files : HandleFileSelect(file)
    \/ \E i \in 1..MaxReads : FileReaderLoad(i)
    \/ \E i \in 1..MaxReads : FileReaderError(i)
    \/ ClearPreview
    \/ HandleSend
    \/ \E ok \in BOOLEAN : ServerAnswerUpload(ok)
    \/ UploadSettle
    \/ \E m \in wire : OnNewMessage(m, FALSE)

SpecMedia == MediaInit /\ [][MediaNext]_vars

(***************************************************************************)
(* The mention autocomplete of a conversation that is open: the user       *)
(* edits the text, moves the caret and picks members from the dropdown.    *)
(***************************************************************************)
MentionNext ==
    \/ \E val \in Texts, cursor \in 0..MaxTextLen :
           HandleInputChange(val, cursor)
    \/ \E p \in 0..(MaxTextLen + 3) : MoveCursor(p)
    \/ \E u \in RemoteUsers : HandleMentionSelect(u)

SpecMention == MediaInit /\ [][MentionNext]_vars

(***************************************************************************)
(* Properties of the mention autocomplete.                                 *)
(***************************************************************************)
\* The text with the partial token that activated the query replaced: the
\* token starts at the query's offset and is "@" and the query's text.
TokenReplaced(input, query, username) ==
    SubSeq(input, 1, query.index) \o <<"@">> \o username \o <<" ">>
        \o SubSeq(input, query.index + 1 + Len(query.text) + 1, Len(input))

\* C18: picking a member replaces exactly the partial "@" token that
\* activated the autocomplete with "@username "; the text before the
\* query's offset and the text after the token stay as they were, wherever
\* the caret is at the pick.
C18_MentionReplacesToken ==
    [][lastAct'.name = "HandleMentionSelect" =>
          messageInput' = TokenReplaced(messageInput, mentionQuery,
                                        Username(lastAct'.user))]_vars

(***************************************************************************)
(* The reply target: the user marks a message of the open conversation,    *)
(* cancels, sends, picks another conversation or opens a direct one.        *)
(***************************************************************************)
ReplyNext ==
    \/ \E i \in 1..MaxMsgs : SetReplyingTo(i)
    \/ CancelReply
    \/ HandleSelectConversation("A")
    \/ HandleCreateDm("u1")
    \/ ServerAnswerDm("u1", TRUE)
    \/ CreateDmResolve("u1")
    \/ \E i \in 1..MaxLoads : ServerAnswerLoad(i, TRUE)
    \/ \E i \in 1..MaxLoads : LoadResolve(i)
    \/ HandleInputChange(<<"a">>, 1)
    \/ HandleSend
    \/ \E ok \in BOOLEAN : ServerHandleSend(ok)
    \/ AckArrives

SpecReply == PinInit /\ [][ReplyNext]_vars

(***************************************************************************)
(* Properties of the reply target.                                         *)
(***************************************************************************)
\* The conversation of the stored message with this id.
ConversationOf(id) ==
    (CHOOSE m \in Range(serverLog) : m.id = id).conversation_id

\* A send request carries no reply target, or one of its own conversation.
ReplyInOwnConversation ==
    pendingSend # NoSend /\ pendingSend.replyToId # NoMessage.id
        => ConversationOf(pendingSend.replyToId) = pendingSend.conv

\* C19: the reply target is cleared by a send, by the cancel button and by
\* every change of the active conversation, and no send carries the id of a
\* message of a conversation other than the one it is sent to.
C19_ReplyTargetFollowsConversation ==
    /\ []ReplyInOwnConversation
    /\ [][/\ activeConvId' # activeConvId => replyingTo' = NoMessage
          /\ lastAct'.name = "CancelReply" => replyingTo' = NoMessage
          /\ lastAct'.name = "HandleSend" /\ lastAct'.path = "text"
                 => replyingTo' = NoMessage]_vars

(***************************************************************************)
(* The directory while messages arrive: other members post text, photos    *)
(* and videos to two conversations and the events reach the page.          *)
(***************************************************************************)
DirectoryNext ==
    \/ \E c \in {"A", "B"},
          media \in {NoMedia, <<"image", "png">>, <<"video", "mp4">>} :
           ServerPost(c, "u1", <<"a">>, media)
    \/ \E m \in wire, again \in BOOLEAN : OnNewMessage(m, again)

SpecDirectory == TimelineInit /\ [][DirectoryNext]_vars

(***************************************************************************)
(* Properties of the directory.                                            *)
(***************************************************************************)
\* The entry shows message m: its text, or the Photo or Video label chosen
\* by the prefix of its media type, and its time stamp.
ShowsMessage(c, m) ==
    /\ c.id = m.conversation_id
    /\ c.last_message_at = m.created_at
    /\ IF m.media_type = NoMedia
       THEN c.last_message = m.content
       ELSE c.last_message[Len(c.last_message)] =
                (IF m.media_type[1] = "image" THEN "Photo" ELSE "Video")

\* The handler leaves the entry of m's conversation showing m.
NewMessageShown ==
    [][\A m \in Range(serverLog), again \in BOOLEAN :
          OnNewMessage(m, again) /\ HasConv(conversations, m.conversation_id)
              => \E i \in DOMAIN conversations' :
                     ShowsMessage(conversations'[i], m)]_vars

\* C20: when new_message{m} is handled for a conversation of the directory,
\* the conversation's entry shows m (text or media label, and time stamp)
\* and is the first entry of the directory.
C20_NewMessageMovesToFront ==
    [][\A m \in Range(serverLog), again \in BOOLEAN :
          OnNewMessage(m, again) /\ HasConv(conversations, m.conversation_id)
              => ShowsMessage(conversations'[1], m)]_vars

(***************************************************************************)
(* The directory while conversations are added: other users open direct    *)
(* conversations and the user opens them from the dialog.                  *)
(***************************************************************************)
InsertNext ==
    \/ \E c \in {"B", "C"} : OnNewConversation(c)
    \/ \E u \in RemoteUsers : HandleCreateDm(u)
    \/ \E u \in RemoteUsers, ok \in BOOLEAN : ServerAnswerDm(u, ok)
    \/ \E u \in RemoteUsers : CreateDmResolve(u)
    \/ \E u \in RemoteUsers : CreateDmReject(u)
    \/ \E i \in 1..MaxLoads : ServerAnswerLoad(i, TRUE)
    \/ \E i \in 1..MaxLoads : LoadResolve(i)

SpecInsert == TimelineInit /\ [][InsertNext]_vars

(***************************************************************************)
(* Properties of the insertion into the directory.                         *)
(***************************************************************************)
\* C21: a new_conversation event or a created direct conversation whose id
\* is not in the directory is inserted at the front and join_conversation
\* is emitted for it; one whose id is in the directory leaves the directory
\* as it is; the directory never holds two entries with one id.
C21_InsertionIdempotent ==
    /\ [](\A i, j \in DOMAIN conversations :
              conversations[i].id = conversations[j].id => i = j)
    /\ [][lastAct'.name \in {"OnNewConversation", "CreateDmResolve"} =>
            LET c == IF lastAct'.name = "OnNewConversation"
                     THEN lastAct'.conv ELSE activeConvId'
            IN  IF HasConv(conversations, c)
                THEN conversations' = conversations
                ELSE /\ conversations' = <<Conv(c)>> \o conversations
                     /\ Packet("join_conversation", c) \in Range(out')]_vars

\* The direct conversation with u2 has been opened from the dialog: it is
\* in the directory, once, and its room is joined.
C21_Witness ==
    /\ lastAct.name = "CreateDmResolve"
    /\ activeConvId = "C"
    /\ Len(conversations) = 3
    /\ "C" \in joined

(***************************************************************************)
(* The composer of a conversation that is open: the user types, stages an  *)
(* attachment, marks a reply target and sends by either path.               *)
(***************************************************************************)
ComposerNext ==
    \/ \E val \in {<<>>, <<"a">>} : HandleInputChange(val, Len(val))
    \/ \E file \in {f \in Files : f.name = "exact.png"} :
           HandleFileSelect(file)
    \/ FileReaderLoad(1)
    \/ SetReplyingTo(1)
    \/ HandleSend
    \/ \E ok \in BOOLEAN : ServerHandleSend(ok)
    \/ AckArrives
    \/ \E ok \in BOOLEAN : ServerAnswerUpload(ok)
    \/ UploadSettle
    \/ \E m \in wire : OnNewMessage(m, FALSE)

SpecComposer == MediaInit /\ [][ComposerNext]_vars

(***************************************************************************)
(* The typing signal: the user types and switches between two              *)
(* conversations; the hold timer fires when it is left alone long enough.  *)
(***************************************************************************)
TypingSignalNext ==
    \/ \E val \in {<<>>, <<"a">>} : HandleInputChange(val, Len(val))
    \/ \E c \in {"A", "B"} : HandleSelectConversation(c)
    \/ \E i \in 1..MaxLoads : ServerAnswerLoad(i, TRUE)
    \/ \E i \in 1..MaxLoads : LoadResolve(i)
    \/ TypingTimerFires

SpecTypingSignal ==
    MediaInit /\ [][TypingSignalNext]_vars /\ WF_vars(TypingTimerFires)

(***************************************************************************)
(* Properties of the typing signal the composer emits.                     *)
(***************************************************************************)
\* C22: a send by the text path or by the attachment path emits typing_stop
\* for the conversation in the same step, and so does every step in which
\* the input becomes empty.
C22_SendEmitsTypingStop ==
    [][/\ lastAct'.name = "HandleSend" /\ lastAct'.path \in {"text", "media"}
           => Packet("typing_stop", activeConvId) \in Range(out')
       /\ messageInput # <<>> /\ messageInput' = <<>>
           => Packet("typing_stop", activeConvId) \in Range(out')]_vars

\* C23: every typing_start emitted for a conversation is followed by a
\* typing_stop emitted for the same conversation, when pending timers fire.
C23_TypingStartIsStopped ==
    \A c \in {"A", "B"} :
        (Packet("typing_start", c) \in Range(out))
            ~> (Packet("typing_stop", c) \in Range(out))

(***************************************************************************)
(* Properties of the timeline while a load is in flight.                   *)
(***************************************************************************)
\* C24: a message of the active conversation that the new_message handler
\* put in the timeline while the conversation's load was in flight is in
\* the timeline after the load has resolved.
C24_DeliveredMessageKept ==
    [][lastAct'.name = "LoadResolve" =>
          \A i \in DOMAIN messages :
              messages[i].conversation_id = activeConvId
                  => HasMessage(messages', messages[i].id)]_vars

\* C25: while no load is in progress, every message of the timeline
\* belongs to the active conversation.
C25_TimelineOfActiveConversation ==
    ~loadingMsgs =>
        \A i \in DOMAIN messages : messages[i].conversation_id = activeConvId

(***************************************************************************)
(* Properties of the pinned_message_updated handler and the favorites.     *)
(***************************************************************************)
\* C26: handling pinned_message_updated{conversationId, pinnedMessage} sets
\* the pinned message of the conversation with that id and nothing else:
\* the other entries, the other fields of the entry, the order of the
\* directory, the timeline and the favorites stay; with no entry of that id
\* the directory stays as it is.
C26_PinEventWritesOneField ==
    [][lastAct'.name = "OnPinnedMessageUpdated" =>
          LET ev == Head(pinWire)
          IN  /\ DOMAIN conversations' = DOMAIN conversations
              /\ \A i \in DOMAIN conversations :
                     IF conversations[i].id = ev.conversationId
                     THEN conversations'[i] =
                              [conversations[i] EXCEPT
                                   !.pinned_message = ev.pinnedMessage]
                     ELSE conversations'[i] = conversations[i]
              /\ messages' = messages
              /\ pinnedConvs' = pinnedConvs
              /\ activeConvId' = activeConvId]_vars

\* An update of another member has set the slot of A while B is starred and
\* a direct conversation was added.
C26_Witness ==
    /\ lastAct.name = "OnPinnedMessageUpdated"
    /\ PinnedIn(conversations, "A") = Posted(2)
    /\ Len(conversations) = 3
    /\ pinnedConvs = <<"B">>

\* The entries of a section: the starred ones in the directory's order,
\* then the others in the directory's order.
FavoritesFirst(type) ==
    LET section == SelectSeq(conversations, LAMBDA c : c.type = type)
    IN  SelectSeq(section, LAMBDA c : c.id \in Range(pinnedConvs))
            \o SelectSeq(section, LAMBDA c : c.id \notin Range(pinnedConvs))

\* C28: togglePin changes the favorites and no pinned message; pinning a
\* message and pinned_message_updated never change the favorites; in each
\* section the starred entries come first and the order is otherwise the
\* directory's.
C28_FavoritesIndependent ==
    /\ [](\A type \in {"group", "dm"} :
              SortedSection(type) = FavoritesFirst(type))
    /\ [][/\ lastAct'.name = "TogglePin" =>
                /\ pinnedConvs' # pinnedConvs
                /\ conversations' = conversations
                /\ serverPinned' = serverPinned
                /\ pinRequests' = pinRequests
          /\ lastAct'.name # "TogglePin" => pinnedConvs' = pinnedConvs]_vars

\* The newer direct conversation is not starred, the older one is and is
\* shown first, and a message is pinned in A.
C28_Witness ==
    /\ Len(conversations) = 3
    /\ conversations[1].id = "C"
    /\ pinnedConvs = <<"B">>
    /\ SortedSection("dm")[1].id = "B"
    /\ PinnedIn(conversations, "A") # NoMessage

(***************************************************************************)
(* The page while the user leaves conversation A for B and other members   *)
(* post to both.                                                            *)
(***************************************************************************)
SwitchNext ==
    \/ \E c \in {"A", "B"} : ServerPost(c, "u1", <<"a">>, NoMedia)
    \/ HandleSelectConversation("B")
    \/ \E i \in 1..MaxLoads : ServerAnswerLoad(i, TRUE)
    \/ \E i \in 1..MaxLoads : LoadResolve(i)
    \/ \E m \in wire : OnNewMessage(m, FALSE)

SpecSwitch == MediaInit /\ [][SwitchNext]_vars

\* C27: a new_message event for a conversation of the directory that is not
\* the active one makes that conversation's entry show the message and
\* leaves the timeline as it is.
C27_BackgroundSummaryUpdated ==
    [][\A m \in Range(serverLog) :
          /\ OnNewMessage(m, FALSE)
          /\ m.conversation_id # activeConvId
          /\ HasConv(conversations, m.conversation_id)
          => /\ messages' = messages
             /\ \E i \in DOMAIN conversations' :
                    ShowsMessage(conversations'[i], m)]_vars

\* The user has left A for B, B's messages are loaded, and the entry of A
\* shows a message that arrived after that.
C27_Witness ==
    /\ lastAct.name = "OnNewMessage"
    /\ activeConvId = "B"
    /\ loads = <<>>
    /\ messages # <<>>
    /\ \A i \in DOMAIN messages : messages[i].conversation_id = "B"
    /\ \E i \in DOMAIN conversations :
           /\ conversations[i].id = "A"
           /\ conversations[i].last_message_at = Len(serverLog)
           /\ conversations[i].last_message_at > messages[Len(messages)].created_at

(***************************************************************************)
(* The two send paths of a conversation that is open with one message in   *)
(* its timeline: the user types, stages an attachment, marks the message    *)
(* as reply target and sends.                                               *)
(***************************************************************************)
PathsInit ==
    /\ token = TRUE
    /\ socketConnected = TRUE
    /\ activeConvId = "A"
    /\ consumers = [c \in Consumers |->
                       IF c = ChatPage THEN "registered" ELSE "unmounted"]
    /\ connectionCount = 1
    /\ globalSocket = 1
    /\ openSockets = {1}
    /\ connListeners = {ChatPage}
    /\ isConnected = [c \in Consumers |-> c = ChatPage]
    /\ listeners = ChatListeners
    /\ delivered = <<>>
    /\ pendingSend = NoSend
    /\ out = <<>>
    /\ serverLog = <<Posted(1)>>
    /\ wire = {}
    /\ joined = {"A", "B"}
    /\ loads = <<>>
    /\ dmRequests = [u \in RemoteUsers |-> "none"]
    /\ pendingUpload = NoUpload
    /\ conversations =
           <<[Conv("A") EXCEPT !.last_message = <<"a">>,
                               !.last_message_at = 1],
             Conv("B")>>
    /\ messages = <<Posted(1)>>
    /\ loadingMsgs = FALSE
    /\ typingUsers = <<>>
    /\ replyingTo = NoMessage
    /\ messageInput = <<>>
    /\ sending = FALSE
    /\ mediaPreview = NoPreview
    /\ uploading = FALSE
    /\ uploadError = NULL
    /\ mentionQuery = NoMention
    /\ typingTimer = NULL
    /\ dmError = NULL
    /\ sendTrack = NoTrack
    /\ selectionStart = 0
    /\ fileRead = <<>>
    /\ serverPinned = [c \in ConvIds |-> NoMessage]
    /\ pinRequests = <<>>
    /\ pinWire = <<>>
    /\ pinTrack = NoPinTrack
    /\ pinnedConvs = <<>>
    /\ lastAct = [name |-> "Init"]

PathsNext ==
    \/ HandleInputChange(<<"a">>, 1)
    \/ \E file \in {f \in Files : f.name = "exact.png"} :
           HandleFileSelect(file)
    \/ FileReaderLoad(1)
    \/ SetReplyingTo(1)
    \/ HandleSend
    \/ \E ok \in BOOLEAN : ServerHandleSend(ok)
    \/ AckArrives
    \/ \E ok \in BOOLEAN : ServerAnswerUpload(ok)
    \/ UploadSettle
    \/ \E m \in wire : OnNewMessage(m, FALSE)

SpecPaths == PathsInit /\ [][PathsNext]_vars

(***************************************************************************)
(* Properties of the send paths.                                           *)
(***************************************************************************)
SendMessageEmitted == \E i \in DOMAIN out' : out'[i].ev = "send_message"

\* C29: a send with an attachment staged issues the upload request with the
\* staged data and emits no send_message; a send with none emits
\* send_message and issues no upload request; a failed upload leaves the
\* staged attachment, the draft and the reply target as they are.
C29_PathByAttachment ==
    [][/\ lastAct'.name = "HandleSend" /\ lastAct'.path # "none" =>
              IF mediaPreview # NoPreview
              THEN /\ lastAct'.path = "media"
                   /\ pendingUpload' # NoUpload
                   /\ pendingUpload'.data = mediaPreview.data
                   /\ pendingSend' = pendingSend
                   /\ ~SendMessageEmitted
              ELSE /\ lastAct'.path = "text"
                   /\ pendingSend' # NoSend
                   /\ SendMessageEmitted
                   /\ pendingUpload' = pendingUpload
       /\ lastAct'.name = "UploadSettle" /\ ~lastAct'.ok =>
              /\ mediaPreview' = mediaPreview
              /\ messageInput' = messageInput
              /\ replyingTo' = replyingTo]_vars

\* An upload with a caption and a reply target has failed and all three
\* are still in the composer.
C29_Witness ==
    /\ lastAct.name = "UploadSettle"
    /\ ~lastAct.ok
    /\ mediaPreview # NoPreview
    /\ messageInput = <<"a">>
    /\ replyingTo = Posted(1)
    /\ uploadError = "Failed to send media"

\* The send is sendable and the composer is idle.
Sendable ==
    /\ Trim(messageInput) # <<>> \/ mediaPreview # NoPreview
    /\ activeConvId # NULL
    /\ ~sending
    /\ ~uploading

\* C30: the send action issues a request only when the message is sendable
\* and the composer is idle; otherwise it transmits nothing and leaves the
\* composer as it is; the composer has at most one send in flight.
C30_SendOnlyWhenIdle ==
    /\ [](/\ ~(pendingSend # NoSend /\ pendingUpload # NoUpload)
          /\ pendingSend # NoSend => sending
          /\ pendingUpload # NoUpload => uploading)
    /\ [][lastAct'.name = "HandleSend" =>
              IF Sendable
              THEN /\ lastAct'.path # "none"
                   /\ pendingSend = NoSend /\ pendingUpload = NoUpload
              ELSE /\ lastAct'.path = "none"
                   /\ out' = <<>>
                   /\ pendingSend' = pendingSend
                   /\ pendingUpload' = pendingUpload
                   /\ composerVars' = composerVars
                   /\ replyingTo' = replyingTo]_vars

\* The send action was invoked while a text send was waiting for its
\* acknowledgment with a new draft typed, and did nothing.
C30_Witness ==
    /\ lastAct.name = "HandleSend"
    /\ lastAct.path = "none"
    /\ sending
    /\ pendingSend # NoSend
    /\ messageInput = <<"a">>

(***************************************************************************)
(* Properties of the attachment.                                           *)
(***************************************************************************)
\* The files the contract allows: at most 2 MiB, of type image/* or video/*.
Allowed(file) ==
    /\ file.size <= 2 * 1024 * 1024
    /\ file.type # NoMedia
    /\ file.type[1] \in {"image", "video"}

AllowedNames == {file.name : file \in {f \in Files : Allowed(f)}}

\* C17: a file over 2 MiB or of a type outside image/* and video/* is turned
\* away with an upload error, is not read and not staged, and no media
\* request carries it; a file of exactly 2 MiB of an allowed type is taken
\* for reading with no error.
C17_OnlyAllowedFilesStaged ==
    /\ [](/\ \A i \in DOMAIN fileRead : Allowed(fileRead[i])
          /\ mediaPreview # NoPreview =>
                 \E f \in Files : Allowed(f) /\ mediaPreview = PreviewOf(f)
          /\ pendingUpload # NoUpload =>
                 \E f \in Files : Allowed(f) /\ pendingUpload.data = DataUrl(f))
    /\ [][lastAct'.name = "HandleFileSelect" =>
            IF lastAct'.file \in AllowedNames
            THEN /\ uploadError' = NULL
                 /\ Len(fileRead') = Len(fileRead) + 1
                 /\ fileRead'[Len(fileRead')].name = lastAct'.file
            ELSE /\ uploadError' # NULL
                 /\ fileRead' = fileRead
                 /\ mediaPreview' = mediaPreview
                 /\ pendingUpload' = pendingUpload]_vars

\* The file of exactly 2 MiB is in a media request while the 3 MiB file has
\* just been turned away.
C17_Witness ==
    /\ lastAct.name = "HandleFileSelect"
    /\ lastAct.file = "big.png"
    /\ uploadError = "File too large"
    /\ mediaPreview # NoPreview
    /\ mediaPreview.name = "exact.png"
    /\ pendingUpload # NoUpload
    /\ pendingUpload.data = DataUrl(CHOOSE f \in Files : f.name = "exact.png")

(***************************************************************************)
(* Properties of the pinned slot.                                          *)
(***************************************************************************)
\* No pin request is in flight and no pin update is on its way.
PinQuiet == pinRequests = <<>> /\ pinWire = <<>>

\* C13, as stated: after two pin actions in a row on one message, the first
\* of them on a message that was not pinned, and with both requests
\* answered and every update delivered, the slot holds the message.
C13_PinTwiceKeepsPin ==
    pinTrack.count = 2 /\ ~pinTrack.failed /\ PinQuiet =>
        PinnedIn(conversations, "A").id = pinTrack.msg

\* C13, amended: after two pin actions in a row on one message that both
\* asked for the message (the second was pressed before the first was
\* answered), with both answered and every update delivered, the slot holds
\* the message, here and on the server.
C13_TwoPinRequestsKeepPin ==
    pinTrack.count = 2 /\ pinTrack.both /\ ~pinTrack.failed /\ PinQuiet =>
        /\ PinnedIn(conversations, "A").id = pinTrack.msg
        /\ serverPinned["A"].id = pinTrack.msg

\* Two requests for the same message have both been answered and settled.
C13_Witness ==
    /\ pinTrack.count = 2
    /\ pinTrack.both
    /\ ~pinTrack.failed
    /\ PinQuiet
    /\ PinnedIn(conversations, "A").id = pinTrack.msg

\* C14: the pin action on the message in the slot asks for null and on any
\* other message asks for that message; the server's slot becomes what was
\* asked for, and so does the local slot when the request has resolved.
C14_PinToggles ==
    [][/\ lastAct'.name = "HandleToggleGlobalPin" =>
              LET asked == pinRequests'[Len(pinRequests')].target
                  slot == PinnedIn(conversations, activeConvId)
              IN  /\ slot.id = lastAct'.msg => asked = NoMessage
                  /\ slot.id # lastAct'.msg => asked.id = lastAct'.msg
       /\ lastAct'.name = "ServerAnswerPin" =>
              \A i \in DOMAIN pinRequests :
                  pinRequests[i].stage = "requested"
                  /\ pinRequests'[i].stage = "ok" =>
                      serverPinned'[pinRequests[i].conv] = pinRequests[i].target
       /\ lastAct'.name = "PinSettle" /\ lastAct'.request.stage = "ok" =>
              PinnedIn(conversations', lastAct'.request.conv)
                  = lastAct'.request.target]_vars

\* A request made on the pinned message has emptied the slot.
C14_Witness ==
    /\ lastAct.name = "PinSettle"
    /\ lastAct.request.stage = "ok"
    /\ lastAct.request.target = NoMessage
    /\ PinnedIn(conversations, "A") = NoMessage

\* C15: the pin action changes no conversation of the directory before its
\* request is answered, and none when the request has failed.
C15_FailedPinChangesNothing ==
    [][/\ lastAct'.name = "HandleToggleGlobalPin" =>
              conversations' = conversations
       /\ lastAct'.name = "PinSettle" /\ lastAct'.request.stage = "failed" =>
              conversations' = conversations]_vars

\* A failed request to replace the pinned message has settled.
C15_Witness ==
    /\ lastAct.name = "PinSettle"
    /\ lastAct.request.stage = "failed"
    /\ lastAct.request.target # NoMessage
    /\ PinnedIn(conversations, "A") # NoMessage
    /\ PinnedIn(conversations, "A") # lastAct.request.target

\* C16: with every response and every update delivered, the slot of each
\* conversation of the directory is the server's.
C16_SlotFollowsServer ==
    PinQuiet =>
        \A i \in DOMAIN conversations :
            conversations[i].pinned_message = serverPinned[conversations[i].id]

(***************************************************************************)
(* Properties of the typing set.                                           *)
(***************************************************************************)
\* C11: the handling of a user_typing or user_stop_typing event of a
\* conversation that is not the active one leaves the typing set as it is,
\* and a change of the active conversation adds nobody to the typing set.
C11_OtherConversationIgnored ==
    [][/\ lastAct'.name \in {"OnTyping", "OnStopTyping"} /\ ~lastAct'.active =>
              typingUsers' = typingUsers
       /\ activeConvId' # activeConvId =>
              Range(typingUsers') \subseteq Range(typingUsers)]_vars

\* A user_typing event of another conversation has been handled while
\* somebody was typing in the active one.
C11_Witness ==
    /\ lastAct.name = "OnTyping"
    /\ ~lastAct.active
    /\ typingUsers # <<>>

\* C12: nobody is in the typing set twice; after a user_typing event of the
\* active conversation its user is in the set once, and after a
\* user_stop_typing event of the active conversation its user is not in it.
C12_TypingSetSemantics ==
    /\ [](\A i, j \in DOMAIN typingUsers :
              typingUsers[i] = typingUsers[j] => i = j)
    /\ [][/\ lastAct'.name = "OnTyping" /\ lastAct'.active
                 /\ lastAct'.user # Me =>
                     Count(typingUsers', lastAct'.user) = 1
          /\ lastAct'.name = "OnStopTyping" /\ lastAct'.active =>
                     Count(typingUsers', lastAct'.user) = 0]_vars

\* A second user_typing event of a user already in the typing set has been
\* handled.
C12_Witness ==
    /\ lastAct.name = "OnTyping"
    /\ lastAct.active
    /\ lastAct.known
    /\ Len(typingUsers) = 1

\* C10: a step that changes the active conversation leaves the typing set
\* empty.
C10_SwitchClearsTyping ==
    [][activeConvId' # activeConvId => typingUsers' = <<>>]_vars

====
